---- MODULE Spec2Model ----
(***************************************************************************)
(* Model of the agent runtime of DimitriMavrick/Autonomous-Agent:          *)
(*   - MessageBox            (src/src/agent.py)                            *)
(*   - Agent dispatch/run    (src/src/agent.py)                            *)
(*   - Behavior._run         (src/src/agent.py)                            *)
(*   - connect_agents bridge (src/src/main.py)                             *)
(*   - BaseAgent scheduler   (src/base_agent.py)                           *)
(*                                                                         *)
(* All tasks are asyncio coroutines on one event loop: a task runs without *)
(* interruption until it reaches an await that really suspends (a sleep,   *)
(* an abstract handler/behaviour body, a wait for another task).  The      *)
(* asyncio.Lock of a MessageBox is never held across a suspension, so      *)
(* acquiring it never suspends and every MessageBox method is one atomic   *)
(* step.                                                                   *)
(***************************************************************************)
EXTENDS Integers, Sequences, FiniteSets, TLC

(***************************************************************************)
(* Messages                                                                *)
(***************************************************************************)

\* A str is the tuple of its characters.
UpperCase == <<"A", "B", "C", "D", "E", "F", "G", "H", "I", "J", "K", "L", "M",
               "N", "O", "P", "Q", "R", "S", "T", "U", "V", "W", "X", "Y", "Z">>

LowerCase == <<"a", "b", "c", "d", "e", "f", "g", "h", "i", "j", "k", "l", "m",
               "n", "o", "p", "q", "r", "s", "t", "u", "v", "w", "x", "y", "z">>

LowerChar(ch) ==
    IF \E i \in DOMAIN UpperCase : UpperCase[i] = ch
    THEN LowerCase[CHOOSE i \in DOMAIN UpperCase : UpperCase[i] = ch]
    ELSE ch

LowerAsIs(str) == str

\* str.lower()
Lower(str) == [i \in DOMAIN str |-> LowerChar(str[i])]

\* k in str
IsSubstring(k, str) ==
    \E i \in 0 .. Len(str) - Len(k) : \A j \in 1 .. Len(k) : str[i + j] = k[j]

\* Message(type, content, metadata)
Msg(t, c, md) == [type |-> t, content |-> c, metadata |-> md]

\* Message.contains_keyword: keyword.lower() in self.content.lower()
ContainsKeyword(m, keyword) == IsSubstring(Lower(keyword), Lower(m.content))

SunMoon == <<"s", "u", "n", " ", "m", "o", "o", "n">>

HelloCrypto == <<"H", "e", "l", "l", "o", " ", "c", "r", "y", "p", "t", "o">>

KwHello == <<"h", "e", "l", "l", "o">>

KwCrypto == <<"c", "r", "y", "p", "t", "o">>

Messages ==
    { Msg("default", SunMoon, "none"),
      Msg("test", HelloCrypto, "kv") }

\* Optional[Message]: None is the empty option, a message m is <<m>>.
None == <<>>

Some(m) == <<m>>

(***************************************************************************)
(* MessageBox: a FIFO queue.Queue behind an asyncio.Lock                   *)
(***************************************************************************)

\* MessageBox.put: self._queue.put(message) appends at the tail.
BoxPut(q, m) == Append(q, m)

\* MessageBox.is_empty: self._queue.empty()
BoxIsEmpty(q) == q = <<>>

GetResultRaises(q) == IF q # <<>> THEN Some(Head(q)) ELSE Some(Msg("Empty", <<>>, "raised"))

\* MessageBox.get, the value returned: the head if there is one, else None.
GetResult(q) == IF ~BoxIsEmpty(q) THEN Some(Head(q)) ELSE None

GetRestLifo(q) == IF q # <<>> THEN SubSeq(q, 1, Len(q) - 1) ELSE q

\* MessageBox.get, the queue left behind.
GetRest(q) == IF ~BoxIsEmpty(q) THEN Tail(q) ELSE q

RECURSIVE BoxClear(_)
BoxClearOnce(q) == IF q # <<>> THEN Tail(q) ELSE q

\* MessageBox.clear: while not empty: get()
BoxClear(q) == IF ~BoxIsEmpty(q) THEN BoxClear(GetRest(q)) ELSE q

(***************************************************************************)
(* Bounds                                                                  *)
(***************************************************************************)

\* Number of MessageBox operations recorded in one run of SpecBox.
MaxBoxOps == 5

Callers == {"c1", "c2"}

\* External puts into an agent's inbox / sends into its outbox in one run.
MaxPuts == 2

Agents == {"A", "B"}

\* Each agent has the task running Agent.run() and an external caller of stop().
Tasks == Agents \X {"run", "ext"}

\* The handler instances: a HelloHandler, a CryptoTransferHandler
\* (src/src/handlers.py) and an instance of an arbitrary Handler subclass.
HandlerKinds == {"Hello", "Crypto", "Custom"}

VARIABLES
    box,        \* SpecBox: the MessageBox._queue contents
    boxTrace,   \* SpecBox: history of completed operations on the box
    sawItems,   \* SpecBox: caller -> is_empty() returned False and get() not yet called
    inbox,      \* agent -> Agent.inbox queue
    outbox,     \* agent -> Agent.outbox queue
    running,    \* agent -> Agent.running
    handlers,   \* agent -> Agent.handlers (list of handler kinds)
    bFlag,      \* agent -> list of Behavior._running, one per registered behavior
    bTask,      \* agent -> list of Behavior.task states: none / alive / backoff /
                \* cancelling / done
    pc,         \* task -> where the task is suspended
    mode,       \* task -> "run" (in the loop of run) or "stop" (inside stop())
    cur,        \* task -> the message process_message is dispatching
    hidx,       \* task -> index of the handler process_message is at
    sidx,       \* task -> index of the behavior stop_behaviors is waiting for
    dlog,       \* task -> message, handler calls made so far and whether all
                \* handlers were visited, of the task's latest process_message
    errors,     \* task -> number of logger.error calls made for the task
    puts,       \* number of external puts/sends so far
    cancelled,  \* agent -> the run task was cancelled
    processed,  \* agent -> number of process_message calls that have returned
    later,      \* agent -> the task (run / ext) that took its message from the
                \* inbox while the agent's other task was dispatching one
    connected,  \* agent -> Agent._connection_status["connected_to"]
    bridgePc,   \* connect_agents: new / sleep / done
    bridgeLast, \* sizes of agent1.outbox, agent2.inbox, agent2.outbox and
                \* agent1.inbox found by the bridge iteration just made
    now,        \* wall clock, in tenths of a second
    beh_running,        \* Behavior._running
    behPc,              \* Behavior.task: none / ready / exec / sleep / errsleep /
                        \* cancelling / cancelling_exec / done
    last_execution,     \* Behavior.last_execution
    execStarts,         \* times of the latest two invocations of execute()
    execOutcome,        \* how the latest invocation ended, and the one before it
    behOutbox,          \* the MessageBox behind Behavior._agent_outbox
    behStale,           \* cancelled _run tasks that Behavior.task no longer
                        \* refers to and that are not done yet
    is_running,         \* BaseAgent.is_running
    basePc,             \* execute_behaviors: head / run / sleep / done
    current_time,       \* execute_behaviors: local current_time of the iteration
    baseIdx,            \* execute_behaviors: behavior the for loop is at
    last_behavior_time, \* BaseAgent.last_behavior_time
    funcStarts,         \* behavior -> times of its latest two actual executions
    funcRaised,         \* a behavior function has raised
    ctx,                \* `async with Agent(...)`: none / entering / block / exited
    wiring,     \* the program that wires the two agents
    wirePc,     \* created / wired
    ref,        \* <<agent, attribute>> -> the box object the attribute refers to
    heap,       \* box object -> its queue
    wireSent,   \* number of messages sent so far
    defaultCreatedAt,   \* the default value of the dataclass field created_at
    made,               \* the Message objects constructed so far: clock value
                        \* at construction and field created_at
    hContent,   \* content of the message shown to the two hello handlers
    hFired,     \* HelloHandler.handle was called for it: unknown / yes / no
    cPrinted,   \* ConcreteAgent.hello_handler printed it: unknown / yes / no
    env,        \* required environment variable -> unset / empty / set
    mainPc,     \* main() of src/src/main.py: start / gather / except / finally / end
    setupError, \* the exception setup_agents raised, or none
    started,    \* the tasks main() has created
    message_handlers,   \* BaseAgent.message_handlers: type -> handler, or none
    cInbox,             \* BaseAgent.inbox
    procPc,             \* the process_messages task: loop / done
    plog,               \* the messages process_messages has taken, each with
                        \* the handler called and how the call ended
    printedErrors,      \* number of "Error processing message" lines printed
    cPuts,              \* number of messages put into the inbox so far
    rOutbox,            \* the outbox random_message_behavior sends to
    rCalls,             \* number of calls of random_message_behavior
    rSent,              \* number of calls of send_message
    aBox,    \* inbox / outbox -> queue of the box the consumers read
    aPc,    \* consumer -> check / get / idle / done
    aDelivered,    \* the arguments process_message was called with
    aDst,    \* the values put into the peer's inbox by connect_agents
    aPuts,    \* number of messages put into the two boxes so far
    aMissed,   \* consumers whose get() returned None after is_empty() said False
    eBoxes,    \* <<agent, inbox / outbox>> -> queue of that MessageBox
    eOutboxRef,    \* behavior -> the box Behavior._agent_outbox refers to, or unset
    eRegs,    \* agent -> the behaviors in Agent.behaviors
    eStarted,    \* behavior -> its _run task is alive
    eLog,   \* the cycles of _run so far: behavior and value returned by execute()
    loopTurn,   \* parity of the number of iterations the loop of run() has made
    tBalanceCall,    \* what balanceOf(source).call() does: <<>> when it raises, else <<balance in wei>>
    tDecimalsCall,    \* what decimals().call() does: <<>> when it raises, else <<decimals>>
    tSendCalls,    \* what building and sending the transaction do: build_fails / send_fails / ok
    transfer_amount,    \* CryptoTransferHandler.transfer_amount
    tPc,    \* handle: start / checked / sending / returned / raised
    tBalance,    \* handle: local balance, None or a number
    tSent,    \* number of send_raw_transaction calls made
    tLogged,   \* the log lines of handle and _get_balance
    thInbox,    \* agent -> its inbox, which is the outbox of its peer
    thPc,    \* agent -> where its run_behaviors thread is: random / sleep_r / balance / sleep_b
    thWake,    \* agent -> the time at which the time.sleep its thread is in ends
    thNow,    \* the clock, in seconds
    thPutTimes,    \* agent -> times of the latest two puts of its random_messages
    thPuts,    \* agent -> number of messages its random_messages has put so far
    thHelloGen,    \* agent -> number of messages with hello its peer's random_messages put into its inbox
    thHelloPrinted,   \* agent -> number of those its hello_handler printed
    hRunning,    \* BaseAgent.is_running
    hInbox,    \* BaseAgent.inbox
    hProcPc,    \* process_messages: head / get / done
    hExecPc,    \* execute_behaviors: head / sleep / done
    hPuts,    \* number of messages put into the inbox so far
    hTaken    \* number of messages process_messages has taken

boxVars == <<box, boxTrace, sawItems>>

agentVars == <<inbox, outbox, running, handlers, bFlag, bTask, pc, mode, cur,
               hidx, sidx, dlog, errors, puts, cancelled, later, processed>>

bridgeVars == <<connected, bridgePc, bridgeLast>>

behaviorVars == <<beh_running, behPc, last_execution, execStarts, execOutcome,
                  behOutbox, behStale>>

baseVars == <<is_running, basePc, current_time, baseIdx, last_behavior_time,
              funcStarts, funcRaised>>

timedVars == <<now, behaviorVars, baseVars>>

lifeVars == <<ctx>>

\* The variables of the wirings of two agents (src/main.py, src/Agent.py,
\* src/src/main.py).
wireVars == <<wiring, wirePc, ref, heap, wireSent>>

\* The variables of the construction of Message objects (src/src/agent.py).
msgVars == <<defaultCreatedAt, made>>

\* The variables of a message shown to the hello handlers.
helloVars == <<hContent, hFired, cPrinted>>

\* The variables of main() of src/src/main.py.
mainVars == <<env, mainPc, setupError, started>>

\* The variables of BaseAgent.process_messages (src/base_agent.py).
concVars == <<message_handlers, cInbox, procPc, plog, printedErrors, cPuts>>

\* The variables of ConcreteAgent.random_message_behavior.
randVars == <<rOutbox, rCalls, rSent>>

\* The variables of the consumers of a MessageBox (Agent.run, Agent.stop and
\* connect_agents) between is_empty() and get().
advVars == <<aBox, aPc, aDelivered, aDst, aPuts, aMissed>>

\* The variables of Behavior objects registered with Agents and the boxes
\* their _run loops put into.
emitVars == <<eBoxes, eOutboxRef, eRegs, eStarted, eLog>>

\* The variable of the loop of run() racing with one stop() call.
raceVars == <<loopTurn>>

\* The variables of one call of CryptoTransferHandler.handle
\* (src/src/handlers.py).
transferVars == <<tBalanceCall, tDecimalsCall, tSendCalls, transfer_amount, tPc, tBalance, tSent, tLogged>>

\* The variables of the two threaded Agents of src/Agent.py wired as in its
\* main().
threadVars == <<thInbox, thPc, thWake, thNow, thPutTimes, thPuts, thHelloGen, thHelloPrinted>>

\* The variables of the two loops of a BaseAgent whose is_running flag is
\* cleared (src/base_agent.py).
haltVars == <<hRunning, hInbox, hProcPc, hExecPc, hPuts, hTaken>>

\* The variables that the agent, bridge and timed specifications leave alone.
extraVars == <<wireVars, msgVars, helloVars, mainVars, concVars, randVars, advVars, emitVars, raceVars, transferVars, threadVars, haltVars>>

\* extraVars without the variables of the wirings.
besideWire == <<msgVars, helloVars, mainVars, concVars, randVars, advVars, emitVars, raceVars, transferVars, threadVars, haltVars>>

\* extraVars without the variables of the Message objects.
besideMsg == <<wireVars, helloVars, mainVars, concVars, randVars, advVars, emitVars, raceVars, transferVars, threadVars, haltVars>>

\* extraVars without the variables of the hello handlers.
besideHello == <<wireVars, msgVars, mainVars, concVars, randVars, advVars, emitVars, raceVars, transferVars, threadVars, haltVars>>

\* extraVars without the variables of main().
besideMain == <<wireVars, msgVars, helloVars, concVars, randVars, advVars, emitVars, raceVars, transferVars, threadVars, haltVars>>

\* extraVars without the variables of process_messages.
besideConc == <<wireVars, msgVars, helloVars, mainVars, randVars, advVars, emitVars, raceVars, transferVars, threadVars, haltVars>>

\* extraVars without the variables of random_message_behavior.
besideRand == <<wireVars, msgVars, helloVars, mainVars, concVars, advVars, emitVars, raceVars, transferVars, threadVars, haltVars>>

\* extraVars without the variables of the MessageBox consumers.
besideAdv == <<wireVars, msgVars, helloVars, mainVars, concVars, randVars, emitVars, raceVars, transferVars, threadVars, haltVars>>

\* extraVars without the variables of the registered Behavior objects.
besideEmit == <<wireVars, msgVars, helloVars, mainVars, concVars, randVars, advVars, raceVars, transferVars, threadVars, haltVars>>

\* extraVars without the variable of the race of run() and stop().
besideRace == <<wireVars, msgVars, helloVars, mainVars, concVars, randVars, advVars, emitVars, transferVars, threadVars, haltVars>>

\* extraVars without the variables of CryptoTransferHandler.handle.
besideTransfer == <<wireVars, msgVars, helloVars, mainVars, concVars, randVars, advVars, emitVars, raceVars, threadVars, haltVars>>

\* extraVars without the variables of the threaded Agents.
besideThread == <<wireVars, msgVars, helloVars, mainVars, concVars, randVars, advVars, emitVars, raceVars, transferVars, haltVars>>

\* extraVars without the variables of the BaseAgent whose flag is cleared.
besideHalt == <<wireVars, msgVars, helloVars, mainVars, concVars, randVars, advVars, emitVars, raceVars, transferVars, threadVars>>

\* The variables of the agent, bridge and timed specifications.
coreVars == <<boxVars, agentVars, bridgeVars, timedVars, lifeVars>>

vars == <<coreVars, extraVars>>

(***************************************************************************)
(* Time: the clock counts tenths of a second                               *)
(***************************************************************************)

\* The clock stops here.
MaxTime == 45

\* Cancelled behavior tasks that can be waiting for their cancellation
\* behind the current task.
MaxStale == 1

\* A sleep may end up to this long after its delay has elapsed.
MaxDelay == 1

\* execute() / a behavior function takes up to this long.
MaxRun == 3

\* asyncio.sleep(0.1) at the end of an iteration of Behavior._run
SleepTick == 1

\* asyncio.sleep(1) after an exception in Behavior._run
ErrorSleep == 10

\* RandomMessageBehavior: interval=2.0
Interval == 20

\* asyncio.sleep(0.1) at the end of an iteration of execute_behaviors
BaseSleepTick == 1

\* ConcreteAgent registers its behavior with interval=2.0
BaseInterval == 20

\* test_behavior_timing accepts intervals from 1.8 s on
Tolerance == 2

\* BaseAgent.behaviors, in insertion order: two registered behaviors.
BehaviorNames == <<"b1", "b2">>

(***************************************************************************)
(* State after construction                                                *)
(***************************************************************************)

\* No process_message call made yet.
NoDispatch == [msg |-> None, calls |-> <<>>, fin |-> FALSE]

\* MessageBox.__init__
InitBoxVars ==
    /\ box = <<>>
    /\ boxTrace = <<>>
    /\ sawItems = [c \in Callers |-> FALSE]

\* Agent.__init__ for every agent, no task started yet.
InitAgentVars ==
    /\ inbox = [a \in Agents |-> <<>>]
    /\ outbox = [a \in Agents |-> <<>>]
    /\ running = [a \in Agents |-> FALSE]
    /\ handlers = [a \in Agents |-> <<>>]
    /\ bFlag = [a \in Agents |-> <<>>]
    /\ bTask = [a \in Agents |-> <<>>]
    /\ pc = [t \in Tasks |-> IF t[2] = "run" THEN "new" ELSE "idle"]
    /\ mode = [t \in Tasks |-> "run"]
    /\ cur = [t \in Tasks |-> None]
    /\ hidx = [t \in Tasks |-> 0]
    /\ sidx = [t \in Tasks |-> 0]
    /\ dlog = [t \in Tasks |-> NoDispatch]
    /\ errors = [t \in Tasks |-> 0]
    /\ puts = 0
    /\ cancelled = [a \in Agents |-> FALSE]
    /\ later = [a \in Agents |-> "none"]
    /\ processed = [a \in Agents |-> 0]

InitBridgeVars ==
    /\ connected = [a \in Agents |-> "nobody"]
    /\ bridgePc = "new"
    /\ bridgeLast = <<>>

\* Behavior.__init__ with the behavior registered on an agent, and
\* BaseAgent.__init__ followed by register_behavior for each behavior, all at
\* time 0.
InitTimedVars ==
    /\ now = 0
    /\ beh_running = FALSE
    /\ behPc = "none"
    /\ last_execution = 0
    /\ execStarts = <<>>
    /\ execOutcome = <<"none", "none">>
    /\ behOutbox = <<>>
    /\ behStale = <<>>
    /\ is_running = TRUE
    /\ basePc = "head"
    /\ current_time = 0
    /\ baseIdx = 0
    /\ last_behavior_time = [i \in DOMAIN BehaviorNames |-> 0]
    /\ funcStarts = [i \in DOMAIN BehaviorNames |-> <<>>]
    /\ funcRaised = FALSE

\* No `async with` block entered.
InitLifeVars == ctx = "none"

\* The programs of the repository that create two agents and connect them.
Wirings == {"src/main.py", "src/Agent.py", "src/src/main.py"}

Endpoints == Agents \X {"inbox", "outbox"}

\* The box objects the two constructors create, in creation order.
BoxIds == 1..4

\* Two agents constructed (each __init__ creates its own inbox and outbox),
\* not yet connected.
OwnBoxes ==
    [e \in Endpoints |->
        IF e = <<"A", "inbox">> THEN 1
        ELSE IF e = <<"A", "outbox">> THEN 2
        ELSE IF e = <<"B", "inbox">> THEN 3
        ELSE 4]

InitWireVars ==
    /\ wiring = "src/src/main.py"
    /\ wirePc = "created"
    /\ ref = OwnBoxes
    /\ heap = [b \in BoxIds |-> <<>>]
    /\ wireSent = 0

\* The module src/src/agent.py has just been imported: the class body of
\* Message has been executed, `datetime.now()` of line 33 included.
InitMsgVars ==
    /\ defaultCreatedAt = 0
    /\ made = <<>>

\* word_list of ConcreteAgent (src/concrete_agent.py lines 9-12), equal to
\* WORD_LIST of src/src/behaviors.py.
WordList ==
    << <<"h", "e", "l", "l", "o">>,
       <<"s", "u", "n">>,
       <<"w", "o", "r", "l", "d">>,
       <<"s", "p", "a", "c", "e">>,
       <<"m", "o", "o", "n">>,
       <<"c", "r", "y", "p", "t", "o">>,
       <<"s", "k", "y">>,
       <<"o", "c", "e", "a", "n">>,
       <<"u", "n", "i", "v", "e", "r", "s", "e">>,
       <<"h", "u", "m", "a", "n">> >>

TwoWordsJoined(w1, w2) == w1 \o w2

\* f"{w1} {w2}"
TwoWords(w1, w2) == w1 \o <<" ">> \o w2

UpperChar(ch) ==
    IF \E i \in DOMAIN LowerCase : LowerCase[i] = ch
    THEN UpperCase[CHOOSE i \in DOMAIN LowerCase : LowerCase[i] = ch]
    ELSE ch

\* str.upper()
Upper(str) == [i \in DOMAIN str |-> UpperChar(str[i])]

\* str.capitalize() of a lower-case str
Capitalize(str) == [i \in DOMAIN str |-> IF i = 1 THEN UpperChar(str[i]) ELSE str[i]]

\* The contents shown to the hello handlers: two words of the word list, as
\* generated, in capitals (as "HELLO UNIVERSE" of test_hello_handler) or
\* capitalized.
HelloContents ==
    LET pairs == { TwoWords(WordList[i], WordList[j]) :
                      i \in DOMAIN WordList, j \in DOMAIN WordList }
    IN  pairs \cup { Upper(c) : c \in pairs } \cup { Capitalize(c) : c \in pairs }

\* No message shown yet.
InitHelloVars ==
    /\ hContent = TwoWords(WordList[1], WordList[3])
    /\ hFired = "unknown"
    /\ cPrinted = "unknown"

\* required_env_vars of setup_agents (src/src/main.py lines 67-72).
RequiredEnvVars ==
    {"ERC20_CONTRACT_ADDRESS", "SOURCE_WALLET_ADDRESS", "TARGET_WALLET_ADDRESS",
     "SOURCE_WALLET_PRIVATE_KEY"}

\* main() not yet called, every required variable set.
InitMainVars ==
    /\ env = [v \in RequiredEnvVars |-> "set"]
    /\ mainPc = "start"
    /\ setupError = "none"
    /\ started = {}

\* The message types handlers are registered for: 'default' by
\* ConcreteAgent, "error" and "test_type" by the tests.
HandlerTypes == {"default", "error", "test_type"}

\* ConcreteAgent.__init__ (src/concrete_agent.py lines 7-22) on top of
\* BaseAgent.__init__: hello_handler is registered for 'default', the inbox
\* is empty; process_messages has been started.
InitConcVars ==
    /\ message_handlers = [t \in HandlerTypes |->
                              IF t = "default" THEN "hello_handler" ELSE "none"]
    /\ cInbox = <<>>
    /\ procPc = "loop"
    /\ plog = <<>>
    /\ printedErrors = 0
    /\ cPuts = 0

\* The outbox of a new agent is empty (src/base_agent.py line 21).
InitRandVars ==
    /\ rOutbox = <<>>
    /\ rCalls = 0
    /\ rSent = 0

\* The three consumers of the boxes of an agent.
Consumers == {"run", "stop", "bridge"}

\* Two new MessageBoxes (src/src/agent.py lines 52-54, 204-205), every consumer at
\* the condition of its while loop.
InitAdvVars ==
    /\ aBox = [b \in {"inbox", "outbox"} |-> <<>>]
    /\ aPc = [c \in Consumers |-> "check"]
    /\ aDelivered = <<>>
    /\ aDst = <<>>
    /\ aPuts = 0
    /\ aMissed = {}

\* Two Behavior objects.
BehaviorObjects == {"b1", "b2"}

\* The MessageBoxes of the agents (src/src/agent.py lines 198-199).
AgentBoxes == Agents \X {"inbox", "outbox"}

\* New agents and new behaviors: empty boxes, no _agent_outbox attribute, no
\* task.
InitEmitVars ==
    /\ eBoxes = [x \in AgentBoxes |-> <<>>]
    /\ eOutboxRef = [b \in BehaviorObjects |-> "unset"]
    /\ eRegs = [a \in Agents |-> {}]
    /\ eStarted = [b \in BehaviorObjects |-> FALSE]
    /\ eLog = <<>>

\* The run task has made no iteration.
InitRaceVars == loopTurn = 0

\* The largest token balance, in wei.
MaxBalance == 21

\* handle has not been called; the chain answers as it will.
InitTransferVars ==
    /\ tBalanceCall = <<>>
    /\ tDecimalsCall = <<>>
    /\ tSendCalls = "ok"
    /\ transfer_amount = 1
    /\ tPc = "start"
    /\ tBalance = None
    /\ tSent = 0
    /\ tLogged = <<>>

\* CHECK_BALANCE_INTERVAL (src/config.py)
CheckBalanceInterval == 10

\* MESSAGE_GENERATION_INTERVAL (src/config.py)
MessageGenerationInterval == 2

\* The clock of the threaded agents stops here.
MaxThTime == 12

\* main() of src/Agent.py (lines 214-226): both agents created, wired and
\* started; every thread is at the head of its loop.
InitThreadVars ==
    /\ thInbox = [a \in Agents |-> <<>>]
    /\ thPc = [a \in Agents |-> "random"]
    /\ thWake = [a \in Agents |-> 0]
    /\ thNow = 0
    /\ thPutTimes = [a \in Agents |-> <<>>]
    /\ thPuts = [a \in Agents |-> 0]
    /\ thHelloGen = [a \in Agents |-> 0]
    /\ thHelloPrinted = [a \in Agents |-> 0]

\* BaseAgent.__init__ (lines 15-29) and run (lines 117-123): is_running is
\* True, the inbox empty and both loops are about to test their condition.
InitHaltVars ==
    /\ hRunning = TRUE
    /\ hInbox = <<>>
    /\ hProcPc = "head"
    /\ hExecPc = "head"
    /\ hPuts = 0
    /\ hTaken = 0

InitExtraVars ==
    /\ InitWireVars /\ InitMsgVars /\ InitHelloVars /\ InitMainVars
    /\ InitConcVars /\ InitRandVars /\ InitAdvVars /\ InitEmitVars /\ InitRaceVars /\ InitTransferVars /\ InitThreadVars /\ InitHaltVars

InitCoreVars ==
    InitBoxVars /\ InitAgentVars /\ InitBridgeVars /\ InitTimedVars /\ InitLifeVars

(***************************************************************************)
(* SpecBox: one MessageBox used by arbitrary callers                       *)
(***************************************************************************)

\* One completed call: the method, the queue it found, the value passed in
\* (put) or returned (get), and whether the caller acted on an earlier
\* is_empty() == False answer.
BoxOp(o, pre, r, st) == [op |-> o, pre |-> pre, ret |-> r, stale |-> st]

InitBox == InitBoxVars /\ InitAgentVars /\ InitBridgeVars /\ InitTimedVars /\ InitLifeVars /\ InitExtraVars

\* await box.put(m)
CallPut(c, m) ==
    /\ UNCHANGED <<agentVars, bridgeVars, timedVars, lifeVars, extraVars>>
    /\ Len(boxTrace) < MaxBoxOps
    /\ box' = BoxPut(box, m)
    /\ boxTrace' = Append(boxTrace, BoxOp("put", box, Some(m), FALSE))
    /\ UNCHANGED sawItems

\* box.is_empty(): the caller keeps the answer and acts on it later
CallIsEmpty(c) ==
    /\ UNCHANGED <<agentVars, bridgeVars, timedVars, lifeVars, extraVars>>
    /\ sawItems' = [sawItems EXCEPT ![c] = ~BoxIsEmpty(box)]
    /\ sawItems' # sawItems
    /\ UNCHANGED <<box, boxTrace>>

\* await box.get()
CallGet(c) ==
    /\ UNCHANGED <<agentVars, bridgeVars, timedVars, lifeVars, extraVars>>
    /\ Len(boxTrace) < MaxBoxOps
    /\ box' = GetRest(box)
    /\ boxTrace' = Append(boxTrace, BoxOp("get", box, GetResult(box), sawItems[c]))
    /\ sawItems' = [sawItems EXCEPT ![c] = FALSE]

\* await box.clear()
CallClear(c) ==
    /\ UNCHANGED <<agentVars, bridgeVars, timedVars, lifeVars, extraVars>>
    /\ Len(boxTrace) < MaxBoxOps
    /\ box' = BoxClear(box)
    /\ boxTrace' = Append(boxTrace, BoxOp("clear", box, None, FALSE))
    /\ UNCHANGED sawItems

NextBox ==
    \/ \E c \in Callers, m \in Messages : CallPut(c, m)
    \/ \E c \in Callers : CallIsEmpty(c)
    \/ \E c \in Callers : CallGet(c)
    \/ \E c \in Callers : CallClear(c)

SpecBox == InitBox /\ [][NextBox]_vars

(***************************************************************************)
(* Claims about the MessageBox (checked under SpecBox)                     *)
(***************************************************************************)

\* The queue right after the i-th recorded operation.
PostBox(i) == IF i < Len(boxTrace) THEN boxTrace[i + 1].pre ELSE box

\* Operations s .. s+2n-1 are n puts followed by n gets, begun on an empty box.
PutsThenGets(s, n) ==
    /\ n >= 1
    /\ s + 2 * n - 1 <= Len(boxTrace)
    /\ boxTrace[s].pre = <<>>
    /\ \A i \in 0 .. n - 1 : boxTrace[s + i].op = "put"
    /\ \A i \in 0 .. n - 1 : boxTrace[s + n + i].op = "get"

\* C1: n puts followed by n gets on one MessageBox (no clear in between)
\* return exactly the messages put, in the order put, and leave the box empty.
C1_Fifo ==
    \A s \in 1 .. Len(boxTrace) : \A n \in 1 .. Len(boxTrace) :
        PutsThenGets(s, n) =>
            /\ \A i \in 0 .. n - 1 : boxTrace[s + n + i].ret = boxTrace[s + i].ret
            /\ PostBox(s + 2 * n - 1) = <<>>

\* Two different messages were put and then both were got.
C1_Witness ==
    \E s \in 1 .. Len(boxTrace) :
        /\ PutsThenGets(s, 2)
        /\ boxTrace[s].ret # boxTrace[s + 1].ret

\* C2: get on an empty box returns None, does not block, does not raise and
\* leaves the box empty, also when the caller saw is_empty() == False before
\* another caller emptied the box.
C2_GetOnEmpty ==
    /\ \A i \in 1 .. Len(boxTrace) :
          (boxTrace[i].op = "get" /\ boxTrace[i].pre = <<>>) =>
              (boxTrace[i].ret = None /\ PostBox(i) = <<>>)
    /\ Len(boxTrace) < MaxBoxOps => \A c \in Callers : ENABLED CallGet(c)

\* A caller that had seen the box non-empty called get after the box was emptied.
C2_Witness ==
    \E i \in 1 .. Len(boxTrace) :
        /\ boxTrace[i].op = "get"
        /\ boxTrace[i].pre = <<>>
        /\ boxTrace[i].stale

\* C3: after clear() the box is empty whatever it held, and a get() that
\* follows returns None.
C3_ClearEmpties ==
    \A i \in 1 .. Len(boxTrace) :
        boxTrace[i].op = "clear" =>
            /\ BoxIsEmpty(PostBox(i))
            /\ (i < Len(boxTrace) /\ boxTrace[i + 1].op = "get") =>
                   boxTrace[i + 1].ret = None

\* A box holding two or more messages was cleared and then read.
C3_Witness ==
    \E i \in 1 .. Len(boxTrace) - 1 :
        /\ boxTrace[i].op = "clear"
        /\ Len(boxTrace[i].pre) >= 2
        /\ boxTrace[i + 1].op = "get"

(***************************************************************************)
(* Agent: handlers, behaviors, run() and stop()  (src/src/agent.py)        *)
(***************************************************************************)

BoolStr(b) == IF b THEN "true" ELSE "false"

\* What `await handler.can_handle(message)` can produce.  HelloHandler and
\* CryptoTransferHandler test a keyword; an arbitrary Handler may answer
\* anything or raise.
CanHandleOutcomes(k, m) ==
    IF k = "Hello" THEN {BoolStr(ContainsKeyword(m, KwHello))}
    ELSE IF k = "Crypto" THEN {BoolStr(ContainsKeyword(m, KwCrypto))}
    ELSE {"true", "false", "raise"}

\* What `await handler.handle(message)` can produce.  The two concrete
\* handlers catch every Exception themselves.
HandleOutcomes(k) == IF k = "Custom" THEN {"ok", "raise"} ELSE {"ok"}

EscapesUncaught(o) == o = "raise"

\* process_message: does the outcome of a handler leave the for loop?
\* try/except Exception is inside the loop, so a raise is logged and dropped.
Escapes(o) == FALSE

NextIndexFirstMatch(i, handled, n) == IF handled THEN n + 1 ELSE i + 1

\* process_message: `for handler in self.handlers` goes on to the next
\* handler whether or not the current one handled the message.
NextIndex(i, handled, n) == i + 1

\* One handler visit: index, kind, what can_handle gave, what handle gave.
Call(i, k, c, r) == [h |-> i, kind |-> k, can |-> c, res |-> r]

\* Where a task goes when stop() (ext) or run() (run) returns.
Ret(t) == IF t[2] = "run" THEN "done" ELSE "stopped"

\* The other task of the same agent.
Other(t) == <<t[1], IF t[2] = "run" THEN "ext" ELSE "run">>

RECURSIVE InboxLoop(_, _)
InboxLoopDrops(q, hs) ==
    IF BoxIsEmpty(q) \/ hs = <<>> THEN [rest |-> <<>>, msg |-> None]
    ELSE [rest |-> <<>>, msg |-> GetResult(q)]

\* `while not self.inbox.is_empty(): if message := await self.inbox.get():
\*  await self.process_message(message)` up to the first suspension: with no
\* handler process_message returns at once and the loop takes the next message.
InboxLoop(q, hs) ==
    IF BoxIsEmpty(q) THEN [rest |-> q, msg |-> None]
    ELSE IF hs = <<>> THEN InboxLoop(GetRest(q), hs)
    ELSE [rest |-> GetRest(q), msg |-> GetResult(q)]

\* The inbox loop of run() (md = "run", lines 306-311) or of stop()
\* (md = "stop", lines 334-340), entered by task t.
InnerWhile(t, md) ==
    LET a == t[1]
        r == InboxLoop(inbox[a], handlers[a])
    IN  /\ inbox' = [inbox EXCEPT ![a] =
                        IF md = "stop" /\ r.msg = None THEN BoxClear(r.rest)
                                                       ELSE r.rest]
        /\ mode' = [mode EXCEPT ![t] = md]
        /\ cur' = [cur EXCEPT ![t] = r.msg]
        /\ later' = [later EXCEPT ![a] =
                        IF r.msg # None /\ pc[Other(t)] \in {"can", "handling"}
                        THEN t[2] ELSE "none"]
        /\ IF r.msg # None
           THEN /\ pc' = [pc EXCEPT ![t] = "can"]
                /\ hidx' = [hidx EXCEPT ![t] = 1]
                /\ UNCHANGED outbox
           ELSE /\ hidx' = [hidx EXCEPT ![t] = 0]
                /\ IF md = "run"
                   THEN /\ pc' = [pc EXCEPT ![t] = "sleep"]
                        /\ UNCHANGED outbox
                   ELSE \* await self.inbox.clear(); await self.outbox.clear()
                        /\ pc' = [pc EXCEPT ![t] = Ret(t)]
                        /\ outbox' = [outbox EXCEPT ![a] = BoxClear(@)]

RECURSIVE FirstLive(_, _)
FirstLiveNever(ts, i) == 0

\* Behavior.stop: `if self.task and not self.task.done()`, first such from i.
FirstLive(ts, i) ==
    IF i > Len(ts) THEN 0
    ELSE IF ts[i] \in {"alive", "backoff", "cancelling"} THEN i
    ELSE FirstLive(ts, i + 1)

\* stop_behaviors from behavior i on: clear _running, cancel the task and
\* wait for it; the caller is suspended while the task is not done.
StopBehaviorsFrom(t, i) ==
    LET a == t[1]
        k == FirstLive(bTask[a], i)
        upto == IF k = 0 THEN Len(bTask[a]) ELSE k
    IN  /\ bFlag' = [bFlag EXCEPT ![a] =
                        [j \in DOMAIN @ |-> IF j >= i /\ j <= upto THEN FALSE ELSE @[j]]]
        /\ sidx' = [sidx EXCEPT ![t] = k]
        /\ IF k = 0
           THEN /\ UNCHANGED bTask
                /\ InnerWhile(t, "stop")
           ELSE /\ bTask' = [bTask EXCEPT ![a][k] = "cancelling"]
                /\ pc' = [pc EXCEPT ![t] = "s_behav"]
                /\ mode' = [mode EXCEPT ![t] = "stop"]
                /\ UNCHANGED <<inbox, outbox, cur, hidx, later>>

StopKeepsFlag(flag) == flag

\* `self.running = False` (line 328)
StopClearsFlag(flag) == FALSE

\* Agent.stop as entered by task t (lines 319-342).
StopBody(t) ==
    LET a == t[1]
    IN  IF ~running[a]
        THEN /\ pc' = [pc EXCEPT ![t] = Ret(t)]
             /\ UNCHANGED <<running, bFlag, bTask, sidx, inbox, outbox, cur,
                            hidx, mode, later>>
        ELSE /\ running' = [running EXCEPT ![a] = StopClearsFlag(@)]
             /\ StopBehaviorsFrom(t, 1)

\* logger.error in `except Exception` (lines 265-266, 313-314): one line per
\* exception caught.
Logged(o) == IF o = "raise" THEN 1 ELSE 0

\* An exception leaves process_message in task t: run() logs it, re-raises
\* and passes through its finally clause (stop()); stop() is left at once.
Abort(t) ==
    IF mode[t] = "run"
    THEN /\ StopBody(t)
         /\ errors' = [errors EXCEPT ![t] = @ + 1]
         /\ UNCHANGED <<dlog, processed>>
    ELSE /\ pc' = [pc EXCEPT ![t] = Ret(t)]
         /\ UNCHANGED <<running, bFlag, bTask, sidx, inbox, outbox, cur,
                        hidx, dlog, mode, errors, later, processed>>

\* process_message after handler hidx[t] is finished with: next handler, or
\* back to the inbox loop the call came from.
Advance(t, call) ==
    LET a == t[1]
        log == IF hidx[t] = 1 THEN <<call>> ELSE Append(dlog[t].calls, call)
        ni == NextIndex(hidx[t], call.res # "none", Len(handlers[a]))
    IN  /\ UNCHANGED <<running, bFlag, bTask, sidx>>
        /\ dlog' = [dlog EXCEPT ![t] = [msg |-> cur[t], calls |-> log,
                                        fin |-> ni > Len(handlers[a])]]
        /\ processed' = [processed EXCEPT ![a] =
                            IF ni > Len(handlers[a]) THEN @ + 1 ELSE @]
        /\ IF ni <= Len(handlers[a])
           THEN /\ hidx' = [hidx EXCEPT ![t] = ni]
                /\ pc' = [pc EXCEPT ![t] = "can"]
                /\ UNCHANGED <<inbox, outbox, cur, mode, later>>
           ELSE InnerWhile(t, mode[t])

\* Agent.register_handler (lines 220-228), during setup; each handler
\* instance is registered once.
RegisterHandler(a, k) ==
    /\ pc[<<a, "run">>] = "new"
    /\ \A i \in DOMAIN handlers[a] : handlers[a][i] # k
    /\ handlers' = [handlers EXCEPT ![a] = Append(@, k)]
    /\ UNCHANGED <<inbox, outbox, running, bFlag, bTask, pc, mode, cur, hidx,
                   sidx, dlog, errors, puts, cancelled, later, processed>>
    /\ UNCHANGED <<boxVars, bridgeVars, timedVars, lifeVars, extraVars>>

\* Behavior.is_running
BehaviorIsRunning(flag, task) == flag /\ task \in {"alive", "backoff"}

\* The run task starts: running = True, start_behaviors, first inbox loop
\* (lines 297-311).
RunStart(a) ==
    LET t == <<a, "run">>
    IN  /\ pc[t] = "new"
        /\ running' = [running EXCEPT ![a] = TRUE]
        /\ bFlag' = [bFlag EXCEPT ![a] = [j \in DOMAIN @ |-> TRUE]]
        /\ bTask' = [bTask EXCEPT ![a] =
                        [j \in DOMAIN @ |->
                            IF BehaviorIsRunning(bFlag[a][j], @[j]) THEN @[j] ELSE "alive"]]
        /\ InnerWhile(t, "run")
        /\ UNCHANGED <<handlers, sidx, dlog, errors, puts, cancelled, processed>>
        /\ UNCHANGED <<boxVars, bridgeVars, timedVars, lifeVars, extraVars>>

\* asyncio.sleep(0.1) of run() is over: `while self.running`, else finally.
RunWake(a) ==
    LET t == <<a, "run">>
    IN  /\ pc[t] = "sleep"
        /\ IF running[a]
           THEN /\ InnerWhile(t, "run")
                /\ UNCHANGED <<running, bFlag, bTask, sidx>>
           ELSE StopBody(t)
        /\ UNCHANGED <<handlers, dlog, errors, puts, cancelled, processed>>
        /\ UNCHANGED <<boxVars, bridgeVars, timedVars, lifeVars, extraVars>>

\* `await handler.can_handle(message)` of handler hidx[t] completes.
Visit(t) ==
    LET a == t[1]
        k == handlers[a][hidx[t]]
    IN  /\ pc[t] = "can"
        /\ \E o \in CanHandleOutcomes(k, cur[t][1]) :
              IF o = "true"
              THEN /\ pc' = [pc EXCEPT ![t] = "handling"]
                   /\ UNCHANGED <<running, bFlag, bTask, sidx, inbox, outbox,
                                  cur, hidx, dlog, mode, errors, later, processed>>
              ELSE IF Escapes(o)
              THEN Abort(t)
              ELSE /\ Advance(t, Call(hidx[t], k, o, "none"))
                   /\ errors' = [errors EXCEPT ![t] = @ + Logged(o)]
        /\ UNCHANGED <<handlers, puts, cancelled>>
        /\ UNCHANGED <<boxVars, bridgeVars, timedVars, lifeVars, extraVars>>

\* `await handler.handle(message)` of handler hidx[t] completes.
HandleReturn(t) ==
    LET a == t[1]
        k == handlers[a][hidx[t]]
    IN  /\ pc[t] = "handling"
        /\ \E o \in HandleOutcomes(k) :
              IF Escapes(o)
              THEN Abort(t)
              ELSE /\ Advance(t, Call(hidx[t], k, "true", o))
                   /\ errors' = [errors EXCEPT ![t] = @ + Logged(o)]
        /\ UNCHANGED <<handlers, puts, cancelled>>
        /\ UNCHANGED <<boxVars, bridgeVars, timedVars, lifeVars, extraVars>>

\* task.cancel() on the run task (src/src/main.py lines 167-169): a task not
\* yet started never runs; otherwise CancelledError is raised where run() is
\* suspended, passes `except Exception` and reaches the finally clause.
CancelRun(a) ==
    LET t == <<a, "run">>
    IN  /\ ~cancelled[a]
        /\ mode[t] = "run"
        /\ pc[t] \in {"new", "sleep", "can", "handling"}
        /\ cancelled' = [cancelled EXCEPT ![a] = TRUE]
        /\ IF pc[t] = "new"
           THEN /\ pc' = [pc EXCEPT ![t] = "done"]
                /\ UNCHANGED <<running, bFlag, bTask, sidx, inbox, outbox, cur,
                               hidx, dlog, mode, later, processed>>
           ELSE StopBody(t)
        /\ UNCHANGED <<handlers, dlog, errors, puts, processed>>
        /\ UNCHANGED <<boxVars, bridgeVars, timedVars, lifeVars, extraVars>>

\* `await agent.stop()` called from outside the run task.
CallStop(a) ==
    LET t == <<a, "ext">>
    IN  /\ pc[t] \in {"idle", "stopped"}
        /\ StopBody(t)
        /\ UNCHANGED <<handlers, dlog, errors, puts, cancelled, processed>>
        /\ UNCHANGED <<boxVars, bridgeVars, timedVars, lifeVars, extraVars>>

\* A cancelled behavior task runs: CancelledError in _run, `break` (line 170).
BehaviorCancelled(a, i) ==
    /\ i \in DOMAIN bTask[a]
    /\ bTask[a][i] = "cancelling"
    /\ bTask' = [bTask EXCEPT ![a][i] = "done"]
    /\ UNCHANGED <<inbox, outbox, running, handlers, bFlag, pc, mode, cur, hidx,
                   sidx, dlog, errors, puts, cancelled, later, processed>>
    /\ UNCHANGED <<boxVars, bridgeVars, timedVars, lifeVars, extraVars>>

\* `await self.task` in Behavior.stop returns: stop_behaviors goes on.
StopResume(t) ==
    LET a == t[1]
    IN  /\ pc[t] = "s_behav"
        /\ bTask[a][sidx[t]] = "done"
        /\ StopBehaviorsFrom(t, sidx[t] + 1)
        /\ UNCHANGED <<running, handlers, dlog, errors, puts, cancelled, processed>>
        /\ UNCHANGED <<boxVars, bridgeVars, timedVars, lifeVars, extraVars>>

\* One iteration of Behavior._run in which execute() returned message m:
\* `await self._agent_outbox.put(message)` (lines 163-166).
BehaviorEmit(a, i, m) ==
    /\ i \in DOMAIN bTask[a]
    /\ bTask[a][i] = "alive"
    /\ bFlag[a][i]
    /\ puts < MaxPuts
    /\ puts' = puts + 1
    /\ outbox' = [outbox EXCEPT ![a] = BoxPut(@, m)]
    /\ UNCHANGED <<inbox, running, handlers, bFlag, bTask, pc, mode, cur, hidx,
                   sidx, dlog, errors, cancelled, later, processed>>
    /\ UNCHANGED <<boxVars, bridgeVars, timedVars, lifeVars, extraVars>>

\* Agent.send_message (lines 278-286).
SendMessage(a, m) ==
    /\ puts < MaxPuts
    /\ puts' = puts + 1
    /\ outbox' = [outbox EXCEPT ![a] = BoxPut(@, m)]
    /\ UNCHANGED <<inbox, running, handlers, bFlag, bTask, pc, mode, cur, hidx,
                   sidx, dlog, errors, cancelled, later, processed>>
    /\ UNCHANGED <<boxVars, bridgeVars, timedVars, lifeVars, extraVars>>

\* A producer outside the agent puts a message into its inbox
\* (`await agent.inbox.put(message)`).
InboxPut(a, m) ==
    /\ puts < MaxPuts
    /\ puts' = puts + 1
    /\ inbox' = [inbox EXCEPT ![a] = BoxPut(@, m)]
    /\ UNCHANGED <<outbox, running, handlers, bFlag, bTask, pc, mode, cur, hidx,
                   sidx, dlog, errors, cancelled, later, processed>>
    /\ UNCHANGED <<boxVars, bridgeVars, timedVars, lifeVars, extraVars>>

\* The behavior instances registered by setup_agents, in this order
\* (src/src/main.py): a RandomMessageBehavior and a TokenBalanceBehavior.
BehaviorList == <<"RandomMessageBehavior", "TokenBalanceBehavior">>

\* Agent.register_behavior (lines 230-239), during setup; each behavior
\* instance is registered once.
RegisterBehavior(a) ==
    /\ pc[<<a, "run">>] = "new"
    /\ Len(bTask[a]) < Len(BehaviorList)
    /\ bFlag' = [bFlag EXCEPT ![a] = Append(@, FALSE)]
    /\ bTask' = [bTask EXCEPT ![a] = Append(@, "none")]
    /\ UNCHANGED <<inbox, outbox, running, handlers, pc, mode, cur, hidx, sidx,
                   dlog, errors, puts, cancelled, later, processed>>
    /\ UNCHANGED <<boxVars, bridgeVars, timedVars, lifeVars, extraVars>>

TaskAfterRaiseEnds(st) == "done"

\* Behavior._run, lines 171-173: an Exception from execute() is caught
\* inside the while loop; the task logs it and sleeps 1 s.
TaskAfterRaise(st) == "backoff"

\* One iteration of Behavior._run in which execute() raised.
BehaviorRaise(a, i) ==
    /\ i \in DOMAIN bTask[a]
    /\ bTask[a][i] = "alive"
    /\ bFlag[a][i]
    /\ bTask' = [bTask EXCEPT ![a][i] = TaskAfterRaise(@)]
    /\ UNCHANGED <<inbox, outbox, running, handlers, bFlag, pc, mode, cur, hidx,
                   sidx, dlog, errors, puts, cancelled, later, processed>>
    /\ UNCHANGED <<boxVars, bridgeVars, timedVars, lifeVars, extraVars>>

\* asyncio.sleep(1) of line 173 is over: the while loop goes on.
BehaviorBackoffEnds(a, i) ==
    /\ i \in DOMAIN bTask[a]
    /\ bTask[a][i] = "backoff"
    /\ bTask' = [bTask EXCEPT ![a][i] = "alive"]
    /\ UNCHANGED <<inbox, outbox, running, handlers, bFlag, pc, mode, cur, hidx,
                   sidx, dlog, errors, puts, cancelled, later, processed>>
    /\ UNCHANGED <<boxVars, bridgeVars, timedVars, lifeVars, extraVars>>

\* Agent.__aenter__ (lines 207-212): the run task is created and the caller
\* sleeps 0.1 s.
AEnter(a) ==
    /\ ctx = "none"
    /\ pc[<<a, "run">>] = "new"
    /\ pc[<<a, "ext">>] = "idle"
    /\ ctx' = "entering"
    /\ UNCHANGED <<boxVars, agentVars, bridgeVars, timedVars, extraVars>>

\* The sleep of __aenter__ is over; the run task, ready since its creation,
\* has had its first turn or was cancelled.  The block is entered.
AEntered(a) ==
    /\ ctx = "entering"
    /\ pc[<<a, "run">>] # "new"
    /\ ctx' = "block"
    /\ UNCHANGED <<boxVars, agentVars, bridgeVars, timedVars, extraVars>>

\* Agent.__aexit__ (lines 214-218) after its stop() has returned:
\* `await self.run_task` returns when the run task is done.
AExited(a) ==
    /\ ctx = "block"
    /\ pc[<<a, "ext">>] = "stopped"
    /\ pc[<<a, "run">>] = "done"
    /\ ctx' = "exited"
    /\ UNCHANGED <<boxVars, agentVars, bridgeVars, timedVars, extraVars>>

\* stop() called from outside the run task: by __aexit__ when the agent is
\* used with `async with`, by any caller otherwise.
StopCalled(a) ==
    /\ ctx \in {"none", "block"}
    /\ CallStop(a)

(***************************************************************************)
(* SpecAgent: one agent with registered handlers and behaviors, fed by an  *)
(* outside producer                                                        *)
(***************************************************************************)

Solo == "A"

InitAgent ==
    InitBoxVars /\ InitAgentVars /\ InitBridgeVars /\ InitTimedVars /\ InitLifeVars /\ InitExtraVars

NextAgent ==
    \/ \E k \in {"Hello", "Custom"} : RegisterHandler(Solo, k)
    \/ RunStart(Solo)
    \/ RunWake(Solo)
    \/ \E k \in {"run", "ext"} : Visit(<<Solo, k>>)
    \/ \E k \in {"run", "ext"} : HandleReturn(<<Solo, k>>)
    \/ CancelRun(Solo)
    \/ CallStop(Solo)
    \/ \E m \in Messages : InboxPut(Solo, m)

SpecAgent == InitAgent /\ [][NextAgent]_vars

(***************************************************************************)
(* Claims about dispatch (checked under SpecAgent)                         *)
(***************************************************************************)

\* C4: process_message(m) visits the registered handlers in registration
\* order, each once, and calls handle(m) on exactly those whose can_handle(m)
\* was true: all matching handlers run, not only the first.
C4_AllMatchingHandlersRun ==
    \A t \in Tasks :
        LET hs == handlers[t[1]]
            calls == dlog[t].calls
        IN  /\ \A i \in DOMAIN calls :
                  /\ calls[i].h = i
                  /\ calls[i].kind = hs[i]
                  /\ calls[i].can \in CanHandleOutcomes(hs[i], dlog[t].msg[1])
                  /\ (calls[i].res # "none") <=> (calls[i].can = "true")
            /\ dlog[t].fin => Len(calls) = Len(hs)
            /\ (pc[t] \in {"sleep", "done", "stopped"} /\ dlog[t].calls # <<>>
                   /\ ~cancelled[t[1]]) => dlog[t].fin

\* A message matched by two handlers was handled by the first and then by
\* the second.
C4_Witness ==
    \E t \in Tasks :
        /\ dlog[t].fin
        /\ Len(dlog[t].calls) = 2
        /\ dlog[t].calls[1].res = "ok"
        /\ dlog[t].calls[2].res = "ok"

\* Task t is in process_message and its handler's can_handle or handle raised
\* in this step.
HandlerRaised(t) == pc[t] \in {"can", "handling"} /\ errors'[t] # errors[t]

\* C5: an exception raised by can_handle or handle is caught inside the
\* dispatch loop: the next handler is tried for the same message, after the
\* last handler the next inbox message is dispatched, and the running flag of
\* the agent is not touched.
C5_HandlerFailureIsolated ==
    [][\A t \in Tasks :
          HandlerRaised(t) =>
              LET a == t[1]
              IN  /\ running'[a] = running[a]
                  /\ mode'[t] = mode[t]
                  /\ IF hidx[t] < Len(handlers[a])
                     THEN /\ pc'[t] = "can"
                          /\ hidx'[t] = hidx[t] + 1
                          /\ cur'[t] = cur[t]
                          /\ inbox'[a] = inbox[a]
                     ELSE IF inbox[a] # <<>>
                     THEN /\ pc'[t] = "can"
                          /\ hidx'[t] = 1
                          /\ cur'[t] = Some(Head(inbox[a]))
                          /\ inbox'[a] = Tail(inbox[a])
                     ELSE mode[t] = "run" => pc'[t] = "sleep"]_vars

\* In a running agent the first handler raised, the second one still handled
\* the message, and the next message is being dispatched after that.
C5_Witness ==
    \E t \in Tasks :
        /\ mode[t] = "run"
        /\ running[t[1]]
        /\ errors[t] > 0
        /\ dlog[t].fin
        /\ Len(dlog[t].calls) = 2
        /\ dlog[t].calls[1].res = "raise"
        /\ dlog[t].calls[2].res = "ok"
        /\ pc[t] \in {"can", "handling"}

(***************************************************************************)
(* Claims about stop() and the run loop (checked under SpecAgent)          *)
(***************************************************************************)

\* The stop() call made from outside the run task returns in this step.
StopReturns(a) ==
    pc[<<a, "ext">>] # "stopped" /\ pc'[<<a, "ext">>] = "stopped"

\* C11: stop() called twice in a row, on an agent that runs or was never
\* started and whatever its boxes hold, leaves running false and both boxes
\* empty, and the second call changes nothing.
C11_StopTwiceStoppedAndEmpty ==
    [][\A a \in Agents :
          /\ StopReturns(a) =>
                (~running'[a] /\ inbox'[a] = <<>> /\ outbox'[a] = <<>>)
          /\ (pc[<<a, "ext">>] = "stopped" /\ ~running[a] /\ CallStop(a)) =>
                UNCHANGED vars]_vars

\* C12: a message leaves the inbox only by being handed to process_message:
\* it is the head of the inbox and becomes the message the taking task
\* dispatches from the first handler on.  stop() clears an inbox it has
\* drained.
C12_NoMessageDiscardedByStop ==
    [][\A a \in Agents :
          inbox'[a] # inbox[a] =>
              \/ \E m \in Messages : inbox'[a] = Append(inbox[a], m)
              \/ handlers[a] = <<>> /\ inbox'[a] = <<>>
              \/ \E t \in Tasks :
                    /\ t[1] = a
                    /\ inbox[a] # <<>>
                    /\ inbox'[a] = Tail(inbox[a])
                    /\ cur'[t] = Some(Head(inbox[a]))
                    /\ pc'[t] = "can"
                    /\ hidx'[t] = 1]_vars

\* stop(), called from outside on a running agent, is dispatching a message
\* it found in the inbox, and another message is still waiting there.
C12_Witness ==
    \E a \in Agents :
        /\ ~running[a]
        /\ mode[<<a, "ext">>] = "stop"
        /\ pc[<<a, "ext">>] \in {"can", "handling"}
        /\ cur[<<a, "ext">>] # None
        /\ inbox[a] # <<>>

\* The run task of agent a is inside the while loop of run(): asleep in it
\* or dispatching a message.
InLoop(a) ==
    /\ mode[<<a, "run">>] = "run"
    /\ pc[<<a, "run">>] \in {"sleep", "can", "handling"}

\* C13: when stop() returns, the run task is no longer inside its loop.
C13_StopReturnsAfterLoopExit ==
    [][\A a \in Agents : StopReturns(a) => ~InLoop(a)']_vars

\* In this step the loop of run() takes a message from the inbox or invokes
\* a handler (can_handle or handle).
LoopActs(a) ==
    LET t == <<a, "run">>
    IN  /\ mode[t] = "run"
        /\ mode'[t] = "run"
        /\ pc'[t] \in {"can", "handling"}
        /\ <<pc[t], hidx[t], cur[t], inbox[a]>> #
              <<pc'[t], hidx'[t], cur'[t], inbox'[a]>>

\* C14: while running is false the loop of run() takes no message and
\* invokes no handler.
C14_LoopIdleWhileNotRunning ==
    [][\A a \in Agents : (~running[a] /\ ~running'[a]) => ~LoopActs(a)]_vars

\* C19: handle() is never invoked on a handler instance while an earlier
\* handle() on that instance has not returned (instances whose handle()
\* suspends).
C19_OneHandleInFlight ==
    \A a \in Agents :
        ~ /\ pc[<<a, "run">>] = "handling"
          /\ pc[<<a, "ext">>] = "handling"
          /\ hidx[<<a, "run">>] = hidx[<<a, "ext">>]
          /\ handlers[a][hidx[<<a, "run">>]] = "Custom"

\* Task t has invoked handle() of handler i on the message it is dispatching.
HandleInvoked(t, i) ==
    \/ hidx[t] = i /\ pc[t] = "handling"
    \/ /\ hidx[t] > i
       /\ \E n \in DOMAIN dlog[t].calls :
             dlog[t].calls[n].h = i /\ dlog[t].calls[n].res # "none"

\* C21: handle() of a handler is not invoked on a message while the agent's
\* other task is dispatching a message that was taken from the inbox later
\* and has already invoked handle() of that handler on it (handlers whose
\* can_handle() or handle() suspends).
C21_DispatchInPutOrder ==
    [][\A t \in Tasks :
          (/\ pc[t] = "can"
           /\ pc'[t] = "handling"
           /\ handlers[t[1]][hidx[t]] = "Custom") =>
              ~ /\ later[t[1]] = Other(t)[2]
                /\ pc[Other(t)] \in {"can", "handling"}
                /\ HandleInvoked(Other(t), hidx[t])]_vars

(***************************************************************************)
(* SpecLife: one agent with its behaviors, from creation to the end of its *)
(* run task                                                                *)
(***************************************************************************)

InitLife ==
    InitBoxVars /\ InitAgentVars /\ InitBridgeVars /\ InitTimedVars /\ InitLifeVars /\ InitExtraVars

NextLife ==
    \/ RegisterBehavior(Solo)
    \/ AEnter(Solo)
    \/ RunStart(Solo)
    \/ AEntered(Solo)
    \/ RunWake(Solo)
    \/ StopCalled(Solo)
    \/ AExited(Solo)
    \/ CancelRun(Solo)
    \/ \E i \in DOMAIN BehaviorList : BehaviorCancelled(Solo, i)
    \/ \E k \in {"run", "ext"} : StopResume(<<Solo, k>>)
    \/ \E i \in DOMAIN BehaviorList, m \in Messages : BehaviorEmit(Solo, i, m)
    \/ \E i \in DOMAIN BehaviorList : BehaviorRaise(Solo, i)
    \/ \E i \in DOMAIN BehaviorList : BehaviorBackoffEnds(Solo, i)
    \/ \E m \in Messages : InboxPut(Solo, m)

SpecLife == InitLife /\ [][NextLife]_vars

(***************************************************************************)
(* Claims about behaviors and the life of an agent (checked under SpecLife)*)
(***************************************************************************)

\* C15: a behavior whose execute() raises keeps its task (a behavior task
\* ends only by being cancelled) and is attempted again once its sleep is
\* over; the step leaves the running flag, the run task and the other
\* behaviors of the agent as they were, and these can still execute.
C15_RaisingBehaviorIsolated ==
    [][\A a \in Agents : \A i \in DOMAIN bTask[a] :
          /\ (bTask[a][i] # "done" /\ bTask'[a][i] = "done") =>
                bTask[a][i] = "cancelling"
          /\ bTask[a][i] = "backoff" => ENABLED BehaviorBackoffEnds(a, i)
          /\ (bTask[a][i] = "alive" /\ bTask'[a][i] \notin {"alive", "cancelling"}) =>
                /\ bTask'[a][i] = "backoff"
                /\ running' = running
                /\ pc' = pc
                /\ bFlag' = bFlag
                /\ \A j \in DOMAIN bTask[a] : j # i => bTask'[a][j] = bTask[a][j]
                /\ \A j \in DOMAIN bTask[a] :
                      (j # i /\ bTask[a][j] = "alive" /\ puts < MaxPuts) =>
                          \A m \in Messages : ENABLED BehaviorEmit(a, j, m)]_vars

\* In a running agent with two behaviors the first one has raised and waits
\* to be retried, the second one is alive and a behavior's message is in the
\* outbox.
C15_Witness ==
    /\ running[Solo]
    /\ bTask[Solo] = <<"backoff", "alive">>
    /\ bFlag[Solo] = <<TRUE, TRUE>>
    /\ outbox[Solo] # <<>>
    /\ pc[<<Solo, "run">>] = "sleep"

\* Behavior i of agent a is stopped: flag cleared, no live task.
BehaviorStopped(a, i) == ~bFlag[a][i] /\ bTask[a][i] \in {"none", "done"}

\* C17: when a cancelled run task that had started ends, the agent has
\* running false, all its behaviors are stopped and both boxes are empty.
C17_StoppedWhenRunEnds ==
    [][\A a \in Agents :
          (/\ pc[<<a, "run">>] \notin {"new", "done"}
           /\ pc'[<<a, "run">>] = "done"
           /\ cancelled'[a]) =>
              /\ ~running'[a]
              /\ \A i \in DOMAIN bTask[a] : BehaviorStopped(a, i)'
              /\ inbox'[a] = <<>>
              /\ outbox'[a] = <<>>]_vars

\* Agent.__init__: not running, nothing registered, empty boxes.
Created(a) ==
    /\ ~running[a]
    /\ handlers[a] = <<>>
    /\ bFlag[a] = <<>>
    /\ bTask[a] = <<>>
    /\ inbox[a] = <<>>
    /\ outbox[a] = <<>>

\* C18: an agent is created not running, with nothing registered and empty
\* boxes; only the start of run() sets running, only stop() clears it; once
\* stop() has returned and the run task is done the agent is not running;
\* inside an `async with` block the agent runs (until it is stopped or
\* cancelled), and after the block it is not running and its run task is
\* done.
C18_Lifecycle ==
    /\ \A a \in Agents : Created(a)
    /\ [][\A a \in Agents :
             LET r == <<a, "run">>
                 e == <<a, "ext">>
             IN  /\ (~running[a] /\ running'[a]) =>
                       (pc[r] = "new" /\ pc'[r] # "new")
                 /\ (running[a] /\ ~running'[a]) =>
                       \E t \in Tasks :
                           t[1] = a /\ mode[t] = "run" /\ mode'[t] = "stop"
                 /\ (pc'[r] = "done" /\ pc'[e] = "stopped") => ~running'[a]
                 /\ (a = Solo /\ ctx' = "block" /\ pc'[e] = "idle"
                       /\ ~cancelled'[a]) => running'[a]
                 /\ (a = Solo /\ ctx' = "exited") =>
                       (~running'[a] /\ pc'[r] = "done")]_vars

\* An agent with two behaviors was used with `async with`, was seen running
\* inside the block, and the block has been left.
C18_Witness ==
    /\ ctx = "exited"
    /\ Len(bTask[Solo]) = 2
    /\ \A i \in DOMAIN bTask[Solo] : bTask[Solo][i] = "done"
    /\ ~cancelled[Solo]

(***************************************************************************)
(* connect_agents: the bridge between two agents  (src/src/main.py)        *)
(***************************************************************************)

RECURSIVE Forward(_, _)
ForwardLosesFirst(src, dst) ==
    IF src = <<>> THEN [src |-> src, dst |-> dst]
    ELSE [src |-> <<>>, dst |-> dst \o Tail(src)]

ForwardFirstOnly(src, dst) ==
    IF src # <<>> THEN [src |-> Tail(src), dst |-> Append(dst, Head(src))]
    ELSE [src |-> src, dst |-> dst]

\* `while not a.outbox.is_empty(): if message := await a.outbox.get():
\*  await b.inbox.put(message)` (lines 36-38 and 42-44)
Forward(src, dst) ==
    IF BoxIsEmpty(src) THEN [src |-> src, dst |-> dst]
    ELSE Forward(GetRest(src), BoxPut(dst, GetResult(src)[1]))

BridgeBoxesOneWay(out1, in1, out2, in2) ==
    LET f12 == Forward(out1, in2)
    IN  [out1 |-> f12.src, in2 |-> f12.dst, out2 |-> out2, in1 |-> in1]

\* The boxes after one pass of the loop body: agent1 -> agent2, then
\* agent2 -> agent1 (lines 35-45).
BridgeBoxes(out1, in1, out2, in2) ==
    LET f12 == Forward(out1, in2)
        f21 == Forward(out2, in1)
    IN  [out1 |-> f12.src, in2 |-> f12.dst, out2 |-> f21.src, in1 |-> f21.dst]

\* The loop condition of connect_agents (line 34).
KeepsForwarding(r1, r2) == r1 /\ r2

\* connect_agents(agent1, agent2) is called with these two.
Agent1 == "A"

Agent2 == "B"

\* Agent.connect_to on both agents (lines 31-32), done when the task starts.
Connect ==
    connected' = IF bridgePc = "new"
                 THEN [a \in Agents |-> IF a = Agent1 THEN Agent2 ELSE Agent1]
                 ELSE connected

\* One iteration of the bridge loop, up to its asyncio.sleep(0.1).
BridgeTick ==
    /\ bridgePc \in {"new", "ready"}
    /\ KeepsForwarding(running[Agent1], running[Agent2])
    /\ Connect
    /\ LET b == BridgeBoxes(outbox[Agent1], inbox[Agent1], outbox[Agent2], inbox[Agent2])
       IN  /\ outbox' = [outbox EXCEPT ![Agent1] = b.out1, ![Agent2] = b.out2]
           /\ inbox' = [inbox EXCEPT ![Agent1] = b.in1, ![Agent2] = b.in2]
    /\ bridgeLast' = <<Len(outbox[Agent1]), Len(inbox[Agent2]),
                        Len(outbox[Agent2]), Len(inbox[Agent1])>>
    /\ bridgePc' = "sleep"
    /\ UNCHANGED <<running, handlers, bFlag, bTask, pc, mode, cur, hidx, sidx,
                   dlog, errors, puts, cancelled, later, processed>>
    /\ UNCHANGED <<boxVars, timedVars, lifeVars, extraVars>>

\* asyncio.sleep(0.1) of the bridge is over.
BridgeWake ==
    /\ bridgePc = "sleep"
    /\ bridgePc' = "ready"
    /\ bridgeLast' = <<>>
    /\ UNCHANGED connected
    /\ UNCHANGED <<boxVars, agentVars, timedVars, lifeVars, extraVars>>

\* The loop condition is false: connect_agents returns.
BridgeExit ==
    /\ bridgePc \in {"new", "ready"}
    /\ ~KeepsForwarding(running[Agent1], running[Agent2])
    /\ Connect
    /\ bridgePc' = "done"
    /\ UNCHANGED bridgeLast
    /\ UNCHANGED <<boxVars, agentVars, timedVars, lifeVars, extraVars>>

(***************************************************************************)
(* SpecBridge: two agents, their run tasks, their stop() callers, senders  *)
(* and the bridge                                                          *)
(***************************************************************************)

\* Each agent has HelloHandler and CryptoTransferHandler registered, as in
\* setup_agents; messages enter the outboxes through send_message.
InitBridge ==
    /\ InitBoxVars
    /\ InitBridgeVars
    /\ InitTimedVars
    /\ InitLifeVars
    /\ InitExtraVars
    /\ inbox = [a \in Agents |-> <<>>]
    /\ outbox = [a \in Agents |-> <<>>]
    /\ running = [a \in Agents |-> FALSE]
    /\ handlers = [a \in Agents |-> <<"Hello", "Crypto">>]
    /\ bFlag = [a \in Agents |-> <<>>]
    /\ bTask = [a \in Agents |-> <<>>]
    /\ pc = [t \in Tasks |-> IF t[2] = "run" THEN "new" ELSE "idle"]
    /\ mode = [t \in Tasks |-> "run"]
    /\ cur = [t \in Tasks |-> None]
    /\ hidx = [t \in Tasks |-> 0]
    /\ sidx = [t \in Tasks |-> 0]
    /\ dlog = [t \in Tasks |-> NoDispatch]
    /\ errors = [t \in Tasks |-> 0]
    /\ puts = 0
    /\ cancelled = [a \in Agents |-> FALSE]
    /\ later = [a \in Agents |-> "none"]
    /\ processed = [a \in Agents |-> 0]

NextBridge ==
    \/ \E a \in Agents : RunStart(a)
    \/ \E a \in Agents : RunWake(a)
    \/ \E t \in Tasks : Visit(t)
    \/ \E t \in Tasks : HandleReturn(t)
    \/ \E a \in Agents : CallStop(a)
    \/ \E a \in Agents, m \in Messages : SendMessage(a, m)
    \/ BridgeTick
    \/ BridgeWake
    \/ BridgeExit

SpecBridge == InitBridge /\ [][NextBridge]_vars

(***************************************************************************)
(* Claims about the bridge (checked under SpecBridge)                      *)
(***************************************************************************)

\* This step is one iteration of the bridge loop.
BridgeTicked == bridgePc \in {"new", "ready"} /\ bridgePc' = "sleep"

\* C8: one bridge tick empties agent1's outbox and appends its messages, in
\* order, each once and unchanged, behind what agent2's inbox already held;
\* nothing of agent1's outbox lands in agent1's own inbox.
C8_TickMovesOutboxToPeerInbox ==
    [][BridgeTicked =>
          /\ outbox'[Agent1] = <<>>
          /\ inbox'[Agent2] = inbox[Agent2] \o outbox[Agent1]
          /\ inbox'[Agent1] = inbox[Agent1] \o outbox[Agent2]]_vars

\* The last tick forwarded a message from agent1 behind a message that was
\* already waiting in agent2's inbox, and both are still there.
C8_Witness ==
    /\ bridgePc = "sleep"
    /\ bridgeLast # <<>>
    /\ bridgeLast[1] >= 1
    /\ bridgeLast[2] >= 1
    /\ Len(inbox[Agent2]) = bridgeLast[1] + bridgeLast[2]
    /\ inbox[Agent2][1] # inbox[Agent2][2]
    /\ outbox[Agent1] = <<>>

\* C9: the bridge terminates only when both agents are no longer running.
C9_BridgeEndsOnlyWhenBothStopped ==
    [][(bridgePc # "done" /\ bridgePc' = "done") =>
          (~running[Agent1] /\ ~running[Agent2])]_vars

\* C10: every iteration of the bridge loop serves both directions: after a
\* tick both outboxes are empty and every message they held is in the peer's
\* inbox.
C10_TickServesBothDirections ==
    [][BridgeTicked =>
          /\ outbox'[Agent1] = <<>> /\ outbox'[Agent2] = <<>>
          /\ Len(inbox'[Agent2]) = Len(inbox[Agent2]) + Len(outbox[Agent1])
          /\ Len(inbox'[Agent1]) = Len(inbox[Agent1]) + Len(outbox[Agent2])
          /\ outbox[Agent2] # <<>> =>
                inbox'[Agent1][Len(inbox'[Agent1])] = outbox[Agent2][Len(outbox[Agent2])]]_vars

\* The last tick found messages in both outboxes and left both empty.
C10_Witness ==
    /\ bridgePc = "sleep"
    /\ bridgeLast # <<>>
    /\ bridgeLast[1] >= 1
    /\ bridgeLast[3] >= 1
    /\ outbox[Agent1] = <<>>
    /\ outbox[Agent2] = <<>>
    /\ inbox[Agent1] # <<>>
    /\ inbox[Agent2] # <<>>

(***************************************************************************)
(* SpecFlow: agent1 with its behaviors, the bridge and agent2 with its     *)
(* handlers, all running and never stopped                                 *)
(***************************************************************************)

\* setup_agents (src/src/main.py lines 56-110): both agents have a
\* HelloHandler and a CryptoTransferHandler; the behaviors followed here are
\* the two registered on agent1.
InitFlow ==
    /\ InitBoxVars
    /\ InitBridgeVars
    /\ InitTimedVars
    /\ InitLifeVars
    /\ InitExtraVars
    /\ inbox = [a \in Agents |-> <<>>]
    /\ outbox = [a \in Agents |-> <<>>]
    /\ running = [a \in Agents |-> FALSE]
    /\ handlers = [a \in Agents |-> <<"Hello", "Crypto">>]
    /\ bFlag = [a \in Agents |->
                   IF a = Agent1 THEN [i \in DOMAIN BehaviorList |-> FALSE] ELSE <<>>]
    /\ bTask = [a \in Agents |->
                   IF a = Agent1 THEN [i \in DOMAIN BehaviorList |-> "none"] ELSE <<>>]
    /\ pc = [t \in Tasks |-> IF t[2] = "run" THEN "new" ELSE "idle"]
    /\ mode = [t \in Tasks |-> "run"]
    /\ cur = [t \in Tasks |-> None]
    /\ hidx = [t \in Tasks |-> 0]
    /\ sidx = [t \in Tasks |-> 0]
    /\ dlog = [t \in Tasks |-> NoDispatch]
    /\ errors = [t \in Tasks |-> 0]
    /\ puts = 0
    /\ cancelled = [a \in Agents |-> FALSE]
    /\ later = [a \in Agents |-> "none"]
    /\ processed = [a \in Agents |-> 0]

NextFlow ==
    \/ \E a \in Agents : RunStart(a)
    \/ \E a \in Agents : RunWake(a)
    \/ \E t \in Tasks : Visit(t)
    \/ \E t \in Tasks : HandleReturn(t)
    \/ \E i \in DOMAIN BehaviorList, m \in Messages : BehaviorEmit(Agent1, i, m)
    \/ BridgeTick
    \/ BridgeWake

\* The event loop runs every task that is ready; every sleep ends; the
\* awaits inside the two concrete handlers return.
FairFlow ==
    /\ \A a \in Agents : WF_vars(RunStart(a)) /\ WF_vars(RunWake(a))
    /\ \A t \in Tasks : WF_vars(Visit(t)) /\ WF_vars(HandleReturn(t))
    /\ WF_vars(BridgeTick)
    /\ WF_vars(BridgeWake)

SpecFlow == InitFlow /\ [][NextFlow]_vars /\ FairFlow

\* process_message calls of the run task of agent a that have begun and not
\* returned.
Dispatching(a) == IF pc[<<a, "run">>] \in {"can", "handling"} THEN 1 ELSE 0

\* The latest process_message call of task t was for message m, went through
\* all handlers and called handle() of every handler whose can_handle()
\* accepts m.
DispatchedToAll(t, m) ==
    LET hs == handlers[t[1]]
        calls == dlog[t].calls
    IN  /\ dlog[t].msg = Some(m)
        /\ dlog[t].fin
        /\ Len(calls) = Len(hs)
        /\ \A i \in DOMAIN hs :
              /\ calls[i].h = i
              /\ calls[i].can \in CanHandleOutcomes(hs[i], m)
              /\ calls[i].can = "true" => calls[i].res = "ok"

\* C22: while both agents and the bridge run, every message a behavior of
\* agent1 has put into the outbox is in exactly one place (agent1's outbox,
\* agent2's inbox, being dispatched by agent2, or dispatched), so it is
\* neither lost nor dispatched twice; each of them is eventually dispatched,
\* and to every handler of agent2 whose can_handle accepts it.
C22_BehaviorMessagesReachPeerHandlers ==
    /\ [](puts = Len(outbox[Agent1]) + Len(inbox[Agent2]) + Dispatching(Agent2)
                    + processed[Agent2])
    /\ \A n \in 1..MaxPuts : (puts >= n) ~> (processed[Agent2] >= n)
    /\ \A m \in Messages :
          (\E i \in DOMAIN outbox[Agent1] : outbox[Agent1][i] = m)
              ~> DispatchedToAll(<<Agent2, "run">>, m)

\* Every message the behaviors of agent1 produced has been dispatched by
\* agent2; the last one went to both of its handlers.
C22_Witness ==
    /\ puts = MaxPuts
    /\ processed[Agent2] = puts
    /\ outbox[Agent1] = <<>>
    /\ inbox[Agent2] = <<>>
    /\ DispatchedToAll(<<Agent2, "run">>, Msg("test", HelloCrypto, "kv"))
    /\ dlog[<<Agent2, "run">>].calls[1].res = "ok"
    /\ dlog[<<Agent2, "run">>].calls[2].res = "ok"

(***************************************************************************)
(* SpecBehavior: one Behavior instance, its task and the clock             *)
(***************************************************************************)

\* The latest two entries of a list of times, after adding t.
Latest2(starts, t) ==
    IF starts = <<>> THEN <<t>> ELSE <<starts[Len(starts)], t>>

\* Behavior.is_running (lines 133-136)
BehIsRunning == beh_running /\ behPc \notin {"none", "done"}

\* Behavior.start (lines 138-143): the new task is ready to run.  A task
\* that was cancelled by stop() and is not done yet is no longer referred to.
BehaviorStart ==
    /\ ~BehIsRunning
    /\ behPc \in {"cancelling", "cancelling_exec"} => Len(behStale) < MaxStale
    /\ beh_running' = TRUE
    /\ behPc' = "ready"
    /\ behStale' = IF behPc = "cancelling" THEN Append(behStale, "idle")
                   ELSE IF behPc = "cancelling_exec" THEN Append(behStale, "exec")
                   ELSE behStale
    /\ UNCHANGED <<now, last_execution, execStarts, execOutcome, behOutbox>>
    /\ UNCHANGED <<boxVars, agentVars, bridgeVars, lifeVars, extraVars, baseVars>>

\* Behavior.stop (lines 145-151) up to `await self.task`: the flag is
\* cleared and the task is cancelled wherever it is suspended, also inside
\* execute().
BehaviorStop ==
    /\ behPc # "none"
    /\ beh_running' = FALSE
    /\ behPc' = IF behPc = "exec" THEN "cancelling_exec"
                ELSE IF behPc \in {"ready", "sleep", "errsleep"} THEN "cancelling"
                ELSE behPc
    /\ execOutcome' = IF behPc = "exec" THEN <<"cancelled", execOutcome[2]>>
                                        ELSE execOutcome
    /\ UNCHANGED <<now, last_execution, execStarts, behOutbox, behStale>>
    /\ UNCHANGED <<boxVars, agentVars, bridgeVars, lifeVars, extraVars, baseVars>>

\* A cancelled task gets its turn: CancelledError in _run, `break` (lines
\* 169-170), the task is done.  Cancelled tasks get their turn in the order
\* they were cancelled.
CancelDelivered ==
    /\ IF behStale # <<>>
       THEN /\ behStale' = Tail(behStale)
            /\ UNCHANGED behPc
       ELSE /\ behPc \in {"cancelling", "cancelling_exec"}
            /\ behPc' = "done"
            /\ UNCHANGED behStale
    /\ UNCHANGED <<now, beh_running, last_execution, execStarts, execOutcome,
                   behOutbox>>
    /\ UNCHANGED <<boxVars, agentVars, bridgeVars, lifeVars, extraVars, baseVars>>

\* Behavior._run, lines 158-163 and 168: the head of an iteration, up to the
\* call of execute() or to the sleep.  A new task gets its first turn after
\* the tasks cancelled before its creation.
RunIteration ==
    /\ behPc = "ready"
    /\ behStale = <<>>
    /\ IF now >= last_execution + Interval
       THEN /\ behPc' = "exec"
            /\ execStarts' = Latest2(execStarts, now)
            /\ execOutcome' = <<"pending", execOutcome[1]>>
       ELSE /\ behPc' = "sleep"
            /\ UNCHANGED <<execStarts, execOutcome>>
    /\ UNCHANGED <<now, beh_running, last_execution, behOutbox, behStale>>
    /\ UNCHANGED <<boxVars, agentVars, bridgeVars, lifeVars, extraVars, baseVars>>

\* execute() has returned r (a message or None) after d: lines 163-168.
\* how is kept as the outcome of the invocation.
Returned(r, d, how) ==
    /\ behPc = "exec"
    /\ now + d <= MaxTime
    /\ now' = now + d
    /\ behOutbox' = IF r # None THEN BoxPut(behOutbox, r[1]) ELSE behOutbox
    /\ last_execution' = now'
    /\ behPc' = "sleep"
    /\ execOutcome' = <<how, execOutcome[2]>>
    /\ UNCHANGED <<beh_running, execStarts, behStale>>
    /\ UNCHANGED <<boxVars, agentVars, bridgeVars, lifeVars, extraVars, baseVars>>

\* execute() of some behavior returns r after d.
ExecuteReturns(r, d) == Returned(r, d, IF r # None THEN "message" ELSE "None")

\* f"Current balance: {human_balance}"
CurrentBalance ==
    <<"C", "u", "r", "r", "e", "n", "t", " ", "b", "a", "l", "a", "n", "c", "e", ":", " ", "1", ".", "0">>

TokenBalanceExecuteStale(call) == Some(Msg("token_balance", CurrentBalance, "kv"))

\* TokenBalanceBehavior.execute (src/src/behaviors.py lines 113-155): the
\* balance message, or None when a contract call raised (lines 153-155).
TokenBalanceExecute(call) ==
    IF call = "fails" THEN None
    ELSE Some(Msg("token_balance", CurrentBalance, "kv"))

\* The behavior is a TokenBalanceBehavior and balanceOf(...).call() or
\* decimals().call() raises after d.
BalanceCallFails(d) == Returned(TokenBalanceExecute("fails"), d, "call_failed")

\* execute() raises after d: line 167 is skipped, lines 171-173 log and
\* sleep.
ExecuteRaises(d) ==
    /\ behPc = "exec"
    /\ now + d <= MaxTime
    /\ now' = now + d
    /\ behPc' = "errsleep"
    /\ execOutcome' = <<"raise", execOutcome[2]>>
    /\ UNCHANGED <<beh_running, last_execution, execStarts, behOutbox, behStale>>
    /\ UNCHANGED <<boxVars, agentVars, bridgeVars, lifeVars, extraVars, baseVars>>

\* asyncio.sleep(0.1) of line 168 is over.
SleepEnds(late) ==
    /\ behPc = "sleep"
    /\ now + SleepTick + late <= MaxTime
    /\ now' = now + SleepTick + late
    /\ behPc' = "ready"
    /\ UNCHANGED <<beh_running, last_execution, execStarts, execOutcome,
                   behOutbox, behStale>>
    /\ UNCHANGED <<boxVars, agentVars, bridgeVars, lifeVars, extraVars, baseVars>>

\* asyncio.sleep(1) of line 173 is over.
ErrorSleepEnds(late) ==
    /\ behPc = "errsleep"
    /\ now + ErrorSleep + late <= MaxTime
    /\ now' = now + ErrorSleep + late
    /\ behPc' = "ready"
    /\ UNCHANGED <<beh_running, last_execution, execStarts, execOutcome,
                   behOutbox, behStale>>
    /\ UNCHANGED <<boxVars, agentVars, bridgeVars, lifeVars, extraVars, baseVars>>

InitBehavior ==
    InitBoxVars /\ InitAgentVars /\ InitBridgeVars /\ InitTimedVars /\ InitLifeVars /\ InitExtraVars

NextBehavior ==
    \/ BehaviorStart
    \/ BehaviorStop
    \/ CancelDelivered
    \/ RunIteration
    \/ \E r \in {None} \cup {Some(m) : m \in Messages}, d \in 0..MaxRun :
          ExecuteReturns(r, d)
    \/ \E d \in 0..MaxRun : BalanceCallFails(d)
    \/ \E d \in 0..MaxRun : ExecuteRaises(d)
    \/ \E late \in 0..MaxDelay : SleepEnds(late)
    \/ \E late \in 0..MaxDelay : ErrorSleepEnds(late)

SpecBehavior == InitBehavior /\ [][NextBehavior]_vars

\* C6: two consecutive invocations of execute() are at least the interval
\* apart, whatever the earlier one did, and the first one is not before the
\* interval has elapsed since the initial last_execution (time 0).
C6_InvocationsIntervalApart ==
    /\ (Len(execStarts) = 2 /\ execOutcome[2] \in {"message", "None", "raise"})
          => execStarts[2] - execStarts[1] >= Interval
    /\ execStarts # <<>> => execStarts[Len(execStarts)] >= Interval

\* C26: when the balance call fails in TokenBalanceBehavior.execute, nothing
\* is put into the outbox, the behavior's task goes on to its sleep, the
\* behavior and the agent keep running and last_execution is the time of the
\* failure; execute() is invoked again not before one interval after that,
\* and a later turn of the loop skips it only while the interval has not
\* elapsed.
C26_BalanceFailureYieldsNoMessage ==
    [][/\ (execOutcome[1] = "pending" /\ execOutcome'[1] = "call_failed") =>
            /\ behOutbox' = behOutbox
            /\ behPc' = "sleep"
            /\ beh_running' = beh_running
            /\ last_execution' = now'
            /\ UNCHANGED agentVars
       /\ (execOutcome[1] = "call_failed" /\ behPc = "ready" /\ behPc' = "exec") =>
            now >= last_execution + Interval
       /\ (execOutcome[1] = "call_failed" /\ behPc = "ready" /\ behPc' = "sleep") =>
            now < last_execution + Interval]_vars

\* After a failed balance call execute() is being invoked again, and the
\* outbox has received nothing.
C26_Witness ==
    /\ execOutcome = <<"pending", "call_failed">>
    /\ behPc = "exec"
    /\ beh_running
    /\ behOutbox = <<>>
    /\ now >= last_execution + Interval

\* _run tasks of the behavior that exist and are not done.
TasksAlive ==
    Len(behStale) + (IF behPc \in {"none", "done"} THEN 0 ELSE 1)

\* Invocations of execute() that have begun and have not ended.
InFlight ==
    (IF behPc \in {"exec", "cancelling_exec"} THEN 1 ELSE 0)
       + Cardinality({i \in DOMAIN behStale : behStale[i] = "exec"})

\* C20: at most one invocation of execute() is in flight and at most one
\* _run task exists at any time.
C20_OneTaskOneExecute == InFlight <= 1 /\ TasksAlive <= 1

(***************************************************************************)
(* SpecBase: BaseAgent.execute_behaviors with two registered behaviors     *)
(***************************************************************************)

\* Interval of each registered behavior.
IntervalOf(i) == BaseInterval

\* The for loop of lines 91-103 from behavior i on, with current_time ct:
\* the first behavior whose condition (lines 100-101) holds, 0 if none.
RECURSIVE NextDue(_, _)
NextDue(i, ct) ==
    IF i > Len(BehaviorNames) THEN 0
    ELSE IF ct - last_behavior_time[i] >= IntervalOf(i) THEN i
    ELSE NextDue(i + 1, ct)

\* The for loop goes on from behavior i with current_time ct, at time t: to
\* the call of the next due behavior function, or to the sleep of line 105.
ForLoop(i, ct, t) ==
    LET n == NextDue(i, ct)
    IN  IF n = 0
        THEN /\ basePc' = "sleep"
             /\ baseIdx' = 0
             /\ UNCHANGED funcStarts
        ELSE /\ basePc' = "run"
             /\ baseIdx' = n
             /\ funcStarts' = [funcStarts EXCEPT ![n] = Latest2(@, t)]

\* Head of an iteration of execute_behaviors, lines 86-101.
BaseIteration ==
    /\ basePc = "head"
    /\ IF is_running
       THEN /\ current_time' = now
            /\ ForLoop(1, now, now)
       ELSE /\ basePc' = "done"
            /\ UNCHANGED <<current_time, baseIdx, funcStarts>>
    /\ UNCHANGED <<now, is_running, last_behavior_time, funcRaised>>
    /\ UNCHANGED <<boxVars, agentVars, bridgeVars, lifeVars, extraVars, behaviorVars>>

\* The behavior function returns after d: line 103, then the rest of the
\* for loop.
FuncReturns(d) ==
    /\ basePc = "run"
    /\ now + d <= MaxTime
    /\ now' = now + d
    /\ last_behavior_time' =
          [last_behavior_time EXCEPT ![baseIdx] = current_time]
    /\ ForLoop(baseIdx + 1, current_time, now')
    /\ UNCHANGED <<is_running, current_time, funcRaised>>
    /\ UNCHANGED <<boxVars, agentVars, bridgeVars, lifeVars, extraVars, behaviorVars>>

\* The behavior function raises after d: lines 109-110, then the while
\* loop goes on at once.
FuncRaises(d) ==
    /\ basePc = "run"
    /\ now + d <= MaxTime
    /\ now' = now + d
    /\ basePc' = "head"
    /\ funcRaised' = TRUE
    /\ UNCHANGED <<is_running, current_time, baseIdx, last_behavior_time,
                   funcStarts>>
    /\ UNCHANGED <<boxVars, agentVars, bridgeVars, lifeVars, extraVars, behaviorVars>>

\* asyncio.sleep(0.1) of line 105 is over.
BaseSleepEnds(late) ==
    /\ basePc = "sleep"
    /\ now + BaseSleepTick + late <= MaxTime
    /\ now' = now + BaseSleepTick + late
    /\ basePc' = "head"
    /\ UNCHANGED <<is_running, current_time, baseIdx, last_behavior_time,
                   funcStarts, funcRaised>>
    /\ UNCHANGED <<boxVars, agentVars, bridgeVars, lifeVars, extraVars, behaviorVars>>

\* The owner clears is_running (as in BaseAgent.run, line 125).
BaseStop ==
    /\ is_running
    /\ is_running' = FALSE
    /\ UNCHANGED <<now, basePc, current_time, baseIdx, last_behavior_time,
                   funcStarts, funcRaised>>
    /\ UNCHANGED <<boxVars, agentVars, bridgeVars, lifeVars, extraVars, behaviorVars>>

InitBase ==
    InitBoxVars /\ InitAgentVars /\ InitBridgeVars /\ InitTimedVars /\ InitLifeVars /\ InitExtraVars

NextBase ==
    \/ BaseIteration
    \/ \E d \in 0..MaxRun : FuncReturns(d)
    \/ \E d \in 0..MaxRun : FuncRaises(d)
    \/ \E late \in 0..MaxDelay : BaseSleepEnds(late)
    \/ BaseStop

SpecBase == InitBase /\ [][NextBase]_vars

\* C7: for every registered behavior, the actual times of two consecutive
\* executions are at least its interval apart, within the tolerance, also
\* when another behavior takes time in the same tick (no behavior function
\* has raised).
C7_ExecutionsIntervalApart ==
    \A i \in DOMAIN BehaviorNames :
        (Len(funcStarts[i]) = 2 /\ ~funcRaised) =>
            funcStarts[i][2] - funcStarts[i][1] >= IntervalOf(i) - Tolerance

\* C16: when a due behavior raises during a tick, every other behavior that
\* is due in that tick is still executed in that tick: a tick is never left
\* through the except branch with a due behavior behind the one that raised.
C16_RaiseSkipsNoDueBehavior ==
    [][(basePc = "run" /\ basePc' = "head") =>
          NextDue(baseIdx + 1, current_time) = 0]_vars

(***************************************************************************)
(* SpecWiring: how the programs of the repository connect two agents       *)
(***************************************************************************)

\* What the attributes refer to after the program has connected the agents:
\* src/main.py lines 21-22 and src/Agent.py lines 221-222 assign the peer's
\* inbox to the outbox attribute; connect_agents of src/src/main.py assigns
\* no box.
Connected(w, r) ==
    IF w \in {"src/main.py", "src/Agent.py"}
    THEN [r EXCEPT ![<<Agent1, "outbox">>] = r[<<Agent2, "inbox">>],
                   ![<<Agent2, "outbox">>] = r[<<Agent1, "inbox">>]]
    ELSE r

\* The program connects the two agents it has created.
WireAgents ==
    /\ wirePc = "created"
    /\ wirePc' = "wired"
    /\ ref' = Connected(wiring, ref)
    /\ UNCHANGED <<wiring, heap, wireSent>>
    /\ UNCHANGED <<coreVars, besideWire>>

\* Agent a sends message m: `self.outbox.put(message)`.
WireSend(a, m) ==
    /\ wirePc = "wired"
    /\ wireSent < MaxPuts
    /\ wireSent' = wireSent + 1
    /\ heap' = [heap EXCEPT ![ref[<<a, "outbox">>]] = BoxPut(@, m)]
    /\ UNCHANGED <<wiring, wirePc, ref>>
    /\ UNCHANGED <<coreVars, besideWire>>

\* One pass of the loop body of connect_agents (src/src/main.py).
WireForward ==
    /\ wirePc = "wired"
    /\ wiring = "src/src/main.py"
    /\ LET b == BridgeBoxes(heap[ref[<<Agent1, "outbox">>]], heap[ref[<<Agent1, "inbox">>]],
                            heap[ref[<<Agent2, "outbox">>]], heap[ref[<<Agent2, "inbox">>]])
       IN  /\ b.in1 # heap[ref[<<Agent1, "inbox">>]] \/ b.in2 # heap[ref[<<Agent2, "inbox">>]]
           /\ heap' = [heap EXCEPT ![ref[<<Agent1, "outbox">>]] = b.out1,
                                   ![ref[<<Agent1, "inbox">>]] = b.in1,
                                   ![ref[<<Agent2, "outbox">>]] = b.out2,
                                   ![ref[<<Agent2, "inbox">>]] = b.in2]
    /\ UNCHANGED <<wiring, wirePc, ref, wireSent>>
    /\ UNCHANGED <<coreVars, besideWire>>

\* Agent a takes the next message from its inbox.
WireReceive(a) ==
    /\ wirePc = "wired"
    /\ ~BoxIsEmpty(heap[ref[<<a, "inbox">>]])
    /\ heap' = [heap EXCEPT ![ref[<<a, "inbox">>]] = GetRest(@)]
    /\ UNCHANGED <<wiring, wirePc, ref, wireSent>>
    /\ UNCHANGED <<coreVars, besideWire>>

InitWiring ==
    /\ InitCoreVars
    /\ InitConcVars
    /\ InitRandVars
    /\ InitMsgVars
    /\ InitHelloVars
    /\ InitMainVars
    /\ InitAdvVars
    /\ InitEmitVars
    /\ InitRaceVars
    /\ InitTransferVars
    /\ InitThreadVars
    /\ InitHaltVars
    /\ wiring \in Wirings
    /\ wirePc = "created"
    /\ ref = OwnBoxes
    /\ heap = [b \in BoxIds |-> <<>>]
    /\ wireSent = 0

NextWiring ==
    \/ WireAgents
    \/ \E a \in Agents, m \in Messages : WireSend(a, m)
    \/ WireForward
    \/ \E a \in Agents : WireReceive(a)

SpecWiring == InitWiring /\ [][NextWiring]_vars

\* The agent at the other end.
Peer(a) == IF a = Agent1 THEN Agent2 ELSE Agent1

\* No box object is referred to by two attributes.
NoBoxShared ==
    \A e1, e2 \in Endpoints : e1 # e2 => ref[e1] # ref[e2]

\* C23: in every wiring a box belongs to one agent in one direction, and a
\* message gets into an agent's inbox only by being taken from another box:
\* when an inbox grows, no message was sent in that step and the peer's
\* outbox has lost what the inbox gained.
C23_BoxesNeverShared ==
    /\ []NoBoxShared
    /\ [][\A a \in Agents :
             LET ib == <<a, "inbox">>
                 ob == <<Peer(a), "outbox">>
             IN  Len(heap'[ref[ib]]) > Len(heap[ref[ib]]) =>
                    /\ wireSent' = wireSent
                    /\ Len(heap[ref[ob]]) - Len(heap'[ref[ob]])
                          = Len(heap'[ref[ib]]) - Len(heap[ref[ib]])]_vars

(***************************************************************************)
(* SpecMessage: Message objects constructed while the clock advances       *)
(***************************************************************************)

\* The value the dataclass gives created_at when the caller passes none, as
\* every construction in the repository does: the default of line 33, an
\* expression evaluated once, when the class is defined.
CreatedAt(default, clock) == default

\* Time passes.
MsgTick ==
    /\ now < MaxTime
    /\ now' = now + 1
    /\ UNCHANGED msgVars
    /\ UNCHANGED <<boxVars, agentVars, bridgeVars, behaviorVars, baseVars, lifeVars>>
    /\ UNCHANGED besideMsg

\* Message(type=..., content=..., metadata=...) is constructed.
Construct ==
    /\ Len(made) < MaxPuts
    /\ made' = Append(made, [at |-> now,
                             created_at |-> CreatedAt(defaultCreatedAt, now)])
    /\ UNCHANGED defaultCreatedAt
    /\ UNCHANGED <<coreVars, besideMsg>>

InitMessage == InitCoreVars /\ InitExtraVars

NextMessage == MsgTick \/ Construct

SpecMessage == InitMessage /\ [][NextMessage]_vars

\* C24: created_at of every Message is the clock value of its construction,
\* so a Message constructed later has a later created_at, and the field of a
\* constructed Message never changes.
C24_CreatedAtIsConstructionTime ==
    /\ [](\A i \in DOMAIN made :
            /\ made[i].created_at = made[i].at
            /\ \A j \in DOMAIN made :
                  made[i].at < made[j].at => made[i].created_at < made[j].created_at)
    /\ [][\A i \in DOMAIN made : made'[i].created_at = made[i].created_at]_vars

(***************************************************************************)
(* SpecHello: one message shown to HelloHandler (src/src/handlers.py) and  *)
(* to ConcreteAgent.hello_handler (src/concrete_agent.py)                  *)
(***************************************************************************)

YesNo(b) == IF b THEN "yes" ELSE "no"

\* HelloHandler inside Agent.process_message: handle() is called when
\* can_handle(), that is message.contains_keyword("hello"), is true.
HelloHandlerFires(content) ==
    ContainsKeyword(Msg("default", content, "none"), KwHello)

\* ConcreteAgent.hello_handler (lines 24-27):
\* `if "hello" in message.get('content', '').lower(): print(...)`
HelloHandlerPrints(content) == IsSubstring(KwHello, Lower(content))

\* Agent.process_message with a HelloHandler registered gets the message.
HelloVisit ==
    /\ hFired = "unknown"
    /\ hFired' = YesNo(HelloHandlerFires(hContent))
    /\ UNCHANGED <<hContent, cPrinted>>
    /\ UNCHANGED <<coreVars, besideHello>>

\* ConcreteAgent.hello_handler is called with the message.
ConcreteVisit ==
    /\ cPrinted = "unknown"
    /\ cPrinted' = YesNo(HelloHandlerPrints(hContent))
    /\ UNCHANGED <<hContent, hFired>>
    /\ UNCHANGED <<coreVars, besideHello>>

InitHello ==
    /\ InitCoreVars
    /\ InitConcVars
    /\ InitRandVars
    /\ InitWireVars
    /\ InitMsgVars
    /\ InitMainVars
    /\ InitAdvVars
    /\ InitEmitVars
    /\ InitRaceVars
    /\ InitTransferVars
    /\ InitThreadVars
    /\ InitHaltVars
    /\ hContent \in HelloContents
    /\ hFired = "unknown"
    /\ cPrinted = "unknown"

NextHello == HelloVisit \/ ConcreteVisit

SpecHello == InitHello /\ [][NextHello]_vars

\* The same letter, in either case.
SameLetter(c, d) ==
    \/ c = d
    \/ \E i \in DOMAIN LowerCase :
          {c, d} = {LowerCase[i], UpperCase[i]}

\* str contains k, letters compared without regard to case.
ContainsIgnoringCase(k, str) ==
    \E i \in 0 .. Len(str) - Len(k) : \A j \in 1 .. Len(k) : SameLetter(str[i + j], k[j])

HelloWorld == TwoWords(WordList[1], WordList[3])

HelloUniverseCaps == Upper(TwoWords(WordList[1], WordList[9]))

WorldSpace == TwoWords(WordList[3], WordList[4])

\* C25: each of the two hello handlers acts on a message exactly when its
\* content contains "hello" in any mix of cases: on "hello world" and
\* "HELLO UNIVERSE", not on "world space".
C25_HelloFiresOnKeyword ==
    LET has == ContainsIgnoringCase(KwHello, hContent)
    IN  /\ hFired # "unknown" => hFired = YesNo(has)
        /\ cPrinted # "unknown" => cPrinted = YesNo(has)
        /\ hContent \in {HelloWorld, HelloUniverseCaps} =>
              hFired # "no" /\ cPrinted # "no"
        /\ hContent = WorldSpace => hFired # "yes" /\ cPrinted # "yes"

\* "HELLO UNIVERSE" has been shown to both handlers and both acted.
C25_Witness ==
    /\ hContent = HelloUniverseCaps
    /\ hFired = "yes"
    /\ cPrinted = "yes"

(***************************************************************************)
(* SpecMain: main() of src/src/main.py from its call to its end            *)
(***************************************************************************)

\* `not os.getenv(var)`: an unset variable gives None, an empty one "".
Missing(e) == {v \in RequiredEnvVars : e[v] \in {"unset", "empty"}}

\* setup_agents (lines 56-110): a missing variable raises ValueError (lines
\* 74-76).  Otherwise the agents are created and, for the first of them,
\* TokenBalanceBehavior is called with contract_address and wallet_address
\* only (lines 86-89), while __init__ has the required parameters
\* web3_provider and contract_abi (src/src/behaviors.py lines 76-82): the
\* call raises TypeError.  Both are logged and raised again (lines 108-110).
SetupAgents(e) == IF Missing(e) # {} THEN "ValueError" ELSE "TypeError"

TasksAfterSetupAlways(outcome) == {"agent1.run", "agent2.run", "connect_agents"}

\* main(), lines 149-156: the three tasks are created after setup_agents has
\* returned; an exception of setup_agents leaves the try block before.
TasksAfterSetup(outcome) ==
    IF outcome = "ok" THEN {"agent1.run", "agent2.run", "connect_agents"} ELSE {}

\* main() from its call to the first suspension or exception (lines 142-159).
MainTry ==
    /\ mainPc = "start"
    /\ LET outcome == SetupAgents(env)
       IN  /\ setupError' = IF outcome = "ok" THEN "none" ELSE outcome
           /\ started' = TasksAfterSetup(outcome)
           /\ mainPc' = IF outcome = "ok" THEN "gather" ELSE "except"
    /\ UNCHANGED env
    /\ UNCHANGED <<coreVars, besideMain>>

\* `except Exception as e: logger.error(...)` (lines 163-164).
MainExcept ==
    /\ mainPc = "except"
    /\ mainPc' = "finally"
    /\ UNCHANGED <<env, setupError, started>>
    /\ UNCHANGED <<coreVars, besideMain>>

\* The finally clause (lines 165-180) after a failed setup: tasks is empty,
\* so nothing is cancelled or awaited; agent1 and agent2 are None, so
\* cleanup_agents is not called.
MainFinally ==
    /\ mainPc = "finally"
    /\ started = {}
    /\ mainPc' = "end"
    /\ UNCHANGED <<env, setupError, started>>
    /\ UNCHANGED <<coreVars, besideMain>>

InitMain ==
    /\ InitCoreVars
    /\ InitConcVars
    /\ InitRandVars
    /\ InitWireVars
    /\ InitMsgVars
    /\ InitHelloVars
    /\ InitAdvVars
    /\ InitEmitVars
    /\ InitRaceVars
    /\ InitTransferVars
    /\ InitThreadVars
    /\ InitHaltVars
    /\ env \in [RequiredEnvVars -> {"unset", "empty", "set"}]
    /\ mainPc = "start"
    /\ setupError = "none"
    /\ started = {}

NextMain == MainTry \/ MainExcept \/ MainFinally

SpecMain == InitMain /\ [][NextMain]_vars

\* C27: when setup_agents has failed, main() has created no task: no
\* Agent.run loop and no bridge is started, and no agent is running.
C27_NoLoopAfterFailedSetup ==
    setupError # "none" =>
        /\ started = {}
        /\ mainPc \in {"except", "finally", "end"}
        /\ \A a \in Agents : ~running[a] /\ pc[<<a, "run">>] = "new"
        /\ bridgePc = "new"

\* main() has ended after setup_agents raised ValueError for a missing
\* variable.
C27_Witness ==
    /\ mainPc = "end"
    /\ setupError = "ValueError"
    /\ env["SOURCE_WALLET_PRIVATE_KEY"] = "unset"
    /\ started = {}

(***************************************************************************)
(* SpecConcrete: BaseAgent.process_messages of a ConcreteAgent             *)
(* (src/base_agent.py, src/concrete_agent.py)                              *)
(***************************************************************************)

\* The messages put into the inbox: dicts with a content and, except for
\* one of them, a type.
ConcMessages ==
    { [type |-> "default", content |-> HelloWorld],
      [type |-> "error", content |-> <<"t", "e", "s", "t">>],
      [type |-> "absent", content |-> HelloUniverseCaps],
      [type |-> "unknown", content |-> WorldSpace] }

\* The handler functions: ConcreteAgent.hello_handler and failing_handler of
\* test_error_handling.
HandlerNames == {"hello_handler", "failing_handler"}

TypeOfAsIs(m) == m.type

\* message.get('type', 'default')
TypeOf(m) == IF m.type = "absent" THEN "default" ELSE m.type

\* self.message_handlers.get(message_type)
HandlerFor(hs, t) == IF t \in DOMAIN hs THEN hs[t] ELSE "none"

\* How `await handler(message)` ends.
HandlerOutcomes(h, m) ==
    IF h = "failing_handler" THEN {"raised"} ELSE {"returned"}

LoopAfterEscapes(out) == IF out = "raised" THEN "done" ELSE "loop"

\* process_messages, lines 81-82: `except Exception` is inside the while
\* loop; after the print the loop goes on.
LoopAfter(out) == "loop"

\* BaseAgent.register_handler (lines 31-40).
ConcRegister(t, h) ==
    /\ message_handlers[t] # h
    /\ message_handlers' = [message_handlers EXCEPT ![t] = h]
    /\ UNCHANGED <<cInbox, procPc, plog, printedErrors, cPuts>>
    /\ UNCHANGED <<coreVars, besideConc>>

\* `await agent.inbox.put(message)`
ConcPut(m) ==
    /\ cPuts < MaxPuts
    /\ cPuts' = cPuts + 1
    /\ cInbox' = Append(cInbox, m)
    /\ UNCHANGED <<message_handlers, procPc, plog, printedErrors>>
    /\ UNCHANGED <<coreVars, besideConc>>

\* One iteration of the loop of process_messages (lines 67-82), from the
\* return of inbox.get() to the next inbox.get().
ConcProcess ==
    /\ procPc = "loop"
    /\ cInbox # <<>>
    /\ LET m == Head(cInbox)
           h == HandlerFor(message_handlers, TypeOf(m))
       IN  IF h = "none"
           THEN /\ plog' = Append(plog, [msg |-> m, handler |-> "none",
                                         out |-> "no_handler"])
                /\ UNCHANGED <<procPc, printedErrors>>
           ELSE \E out \in HandlerOutcomes(h, m) :
                   /\ plog' = Append(plog, [msg |-> m, handler |-> h, out |-> out])
                   /\ printedErrors' = IF out = "raised" THEN printedErrors + 1
                                                          ELSE printedErrors
                   /\ procPc' = LoopAfter(out)
    /\ cInbox' = Tail(cInbox)
    /\ UNCHANGED <<message_handlers, cPuts>>
    /\ UNCHANGED <<coreVars, besideConc>>

\* task.cancel() while the task waits in inbox.get(): CancelledError,
\* `break` (lines 79-80).
ConcCancel ==
    /\ procPc = "loop"
    /\ procPc' = "done"
    /\ UNCHANGED <<message_handlers, cInbox, plog, printedErrors, cPuts>>
    /\ UNCHANGED <<coreVars, besideConc>>

InitConcrete == InitCoreVars /\ InitExtraVars

NextConcrete ==
    \/ \E t \in HandlerTypes, h \in HandlerNames : ConcRegister(t, h)
    \/ \E m \in ConcMessages : ConcPut(m)
    \/ ConcProcess
    \/ ConcCancel

SpecConcrete == InitConcrete /\ [][NextConcrete]_vars

\* This step is one iteration of the loop of process_messages.
Processed == Len(plog') = Len(plog) + 1

\* The type a message is dispatched under.
DispatchType(m) == IF m.type = "absent" THEN "default" ELSE m.type

\* A handler has raised before.
RaisedBefore == \E i \in DOMAIN plog : plog[i].out = "raised"

\* C28: a handler's exception is caught and reported and the loop goes on:
\* the step prints one error line, consumes the message and leaves the task
\* in its loop; while the task is in its loop a waiting message can always
\* be processed; and every message processed after a handler has raised goes
\* to the handler registered for its type.
C28_HandlerErrorKeepsLoop ==
    /\ [][(Processed /\ plog'[Len(plog')].out = "raised") =>
             /\ printedErrors' = printedErrors + 1
             /\ procPc' = "loop"
             /\ cInbox' = Tail(cInbox)]_vars
    /\ []((procPc = "loop" /\ cInbox # <<>>) => ENABLED ConcProcess)
    /\ [][(Processed /\ RaisedBefore) =>
             LET e == plog'[Len(plog')]
                 t == DispatchType(Head(cInbox))
             IN  /\ e.msg = Head(cInbox)
                 /\ e.handler = IF t \in HandlerTypes THEN message_handlers[t]
                                                      ELSE "none"]_vars

\* A handler raised for the first message; the message that arrived behind
\* it went to hello_handler, and the task is still in its loop.
C28_Witness ==
    /\ Len(plog) = 2
    /\ plog[1].out = "raised"
    /\ plog[2].handler = "hello_handler"
    /\ plog[2].out = "returned"
    /\ printedErrors = 1
    /\ procPc = "loop"

\* C30: every iteration consumes the first inbox message and calls the one
\* handler registered for its type ('default' for a message without type),
\* or no handler when none is registered for the type; register_handler
\* changes the entry of its type only, replacing what was there.
C30_OneHandlerPerType ==
    /\ [][Processed =>
             LET e == plog'[Len(plog')]
                 m == Head(cInbox)
                 t == DispatchType(m)
                 h == IF t \in HandlerTypes THEN message_handlers[t] ELSE "none"
             IN  /\ e.msg = m
                 /\ cInbox' = Tail(cInbox)
                 /\ e.handler = h
                 /\ (h = "none") <=> (e.out = "no_handler")]_vars
    /\ [][message_handlers' # message_handlers =>
             \E t \in HandlerTypes, h \in HandlerNames :
                 /\ message_handlers'[t] = h
                 /\ \A u \in HandlerTypes \ {t} :
                       message_handlers'[u] = message_handlers[u]]_vars

\* failing_handler has replaced hello_handler for 'default' and was called
\* for the message without type; the message of unknown type was consumed
\* without a handler.
C30_Witness ==
    /\ message_handlers["default"] = "failing_handler"
    /\ \E i \in DOMAIN plog :
          /\ plog[i].msg.type = "absent"
          /\ plog[i].handler = "failing_handler"
    /\ \E i \in DOMAIN plog :
          /\ plog[i].msg.type = "unknown"
          /\ plog[i].out = "no_handler"
    /\ cInbox = <<>>

(***************************************************************************)
(* SpecRandom: ConcreteAgent.random_message_behavior                       *)
(* (src/concrete_agent.py)                                                 *)
(***************************************************************************)

\* The number of calls of random_message_behavior.
MaxCalls == 2

\* random.sample(population, 2): two elements at distinct positions, in
\* either order.
Sample2(population) ==
    { <<population[i], population[j]>> :
        <<i, j>> \in { p \in (DOMAIN population) \X (DOMAIN population) :
                         p[1] # p[2] } }

\* f"{words[0]} {words[1]}"
ContentOf(words) == TwoWords(words[1], words[2])

\* One call of random_message_behavior (lines 29-38) with send_message
\* (src/base_agent.py lines 112-114).
RandomMessageBehavior ==
    /\ rCalls < MaxCalls
    /\ rCalls' = rCalls + 1
    /\ \E words \in Sample2(WordList) :
          rOutbox' = Append(rOutbox, [type |-> "default",
                                      content |-> ContentOf(words),
                                      from |-> "TestConcreteAgent"])
    /\ rSent' = rSent + 1
    /\ UNCHANGED <<coreVars, besideRand>>

\* The outbox is the inbox of the peer (src/main.py lines 21-22), whose
\* process_messages takes the first message (src/base_agent.py line 70).
RandGet ==
    /\ rOutbox # <<>>
    /\ rOutbox' = Tail(rOutbox)
    /\ UNCHANGED <<rCalls, rSent>>
    /\ UNCHANGED <<coreVars, besideRand>>

InitRandom == InitCoreVars /\ InitExtraVars

NextRandom == RandomMessageBehavior \/ RandGet

SpecRandom == InitRandom /\ [][NextRandom]_vars

RECURSIVE SplitFrom(_, _, _)
\* str.split() continued: word is the word being read, acc the words read.
SplitFrom(str, word, acc) ==
    IF str = <<>>
    THEN IF word = <<>> THEN acc ELSE Append(acc, word)
    ELSE IF Head(str) = " "
         THEN SplitFrom(Tail(str), <<>>, IF word = <<>> THEN acc ELSE Append(acc, word))
         ELSE SplitFrom(Tail(str), Append(word, Head(str)), acc)

\* message['content'].split()
Split(str) == SplitFrom(str, <<>>, <<>>)

\* C29: a call of random_message_behavior sends one message: send_message is
\* called once, the outbox grows by one message of type 'default', and the
\* content of that message splits into exactly two words, each of them an
\* element of word_list.
C29_OneTwoWordMessagePerCall ==
    /\ [](rSent = rCalls)
    /\ [][rCalls' # rCalls =>
             /\ rCalls' = rCalls + 1
             /\ rSent' = rSent + 1
             /\ Len(rOutbox') = Len(rOutbox) + 1
             /\ SubSeq(rOutbox', 1, Len(rOutbox)) = rOutbox
             /\ LET message == rOutbox'[Len(rOutbox')]
                    words == Split(message.content)
                IN  /\ message.type = "default"
                    /\ Len(words) = 2
                    /\ \A k \in DOMAIN words :
                          \E n \in DOMAIN WordList : words[k] = WordList[n]]_vars

\* Two calls have sent two different messages, both still in the outbox.
C29_Witness ==
    /\ rCalls = 2
    /\ Len(rOutbox) = 2
    /\ rOutbox[1].content # rOutbox[2].content

(***************************************************************************)
(* SpecAdvisory: is_empty() and get() of the MessageBox consumers, with    *)
(* other tasks acting on the box in between                                *)
(* (src/src/agent.py, src/src/main.py)                                     *)
(***************************************************************************)

\* The box a consumer reads: run() and stop() the inbox, connect_agents the
\* outbox.
BoxOf(c) == IF c = "bridge" THEN "outbox" ELSE "inbox"

TruthyAlways(r) == TRUE

\* `if message := await box.get():` - None is false, a Message is true.
Truthy(r) == r # None

\* What `await box.get()` binds to message.
Bound(r) == IF r = None THEN None ELSE r[1]

\* await box.put(message) by a producer of the box.
AdvPut(b, m) ==
    /\ aPuts < MaxPuts
    /\ aPuts' = aPuts + 1
    /\ aBox' = [aBox EXCEPT ![b] = BoxPut(@, m)]
    /\ UNCHANGED <<aPc, aDelivered, aDst, aMissed>>
    /\ UNCHANGED <<coreVars, besideAdv>>

\* `while not box.is_empty():` - the condition of the loop.
AdvCheck(c) ==
    /\ aPc[c] = "check"
    /\ aPc' = [aPc EXCEPT ![c] = IF BoxIsEmpty(aBox[BoxOf(c)]) THEN "idle" ELSE "get"]
    /\ UNCHANGED <<aBox, aDelivered, aDst, aPuts, aMissed>>
    /\ UNCHANGED <<coreVars, besideAdv>>

\* `if message := await box.get(): ...` - the body of the loop: run() and
\* stop() call process_message(message), connect_agents puts message into
\* the peer's inbox.
AdvGet(c) ==
    /\ aPc[c] = "get"
    /\ LET r == GetResult(aBox[BoxOf(c)])
       IN  /\ aBox' = [aBox EXCEPT ![BoxOf(c)] = GetRest(@)]
           /\ aMissed' = IF r = None THEN aMissed \cup {c} ELSE aMissed
           /\ IF Truthy(r)
              THEN IF c = "bridge"
                   THEN /\ aDst' = BoxPut(aDst, Bound(r))
                        /\ UNCHANGED aDelivered
                   ELSE /\ aDelivered' = Append(aDelivered, Bound(r))
                        /\ UNCHANGED aDst
              ELSE UNCHANGED <<aDelivered, aDst>>
    /\ aPc' = [aPc EXCEPT ![c] = "check"]
    /\ UNCHANGED aPuts
    /\ UNCHANGED <<coreVars, besideAdv>>

\* The asyncio.sleep(0.1) behind the loop of run() and of connect_agents
\* ends and the loop is entered again.
AdvAgain(c) ==
    /\ c # "stop"
    /\ aPc[c] = "idle"
    /\ aPc' = [aPc EXCEPT ![c] = "check"]
    /\ UNCHANGED <<aBox, aDelivered, aDst, aPuts, aMissed>>
    /\ UNCHANGED <<coreVars, besideAdv>>

\* stop() behind its loop: await self.inbox.clear(); await self.outbox.clear()
AdvStopClear ==
    /\ aPc["stop"] = "idle"
    /\ aPc' = [aPc EXCEPT !["stop"] = "done"]
    /\ aBox' = [b \in DOMAIN aBox |-> BoxClear(aBox[b])]
    /\ UNCHANGED <<aDelivered, aDst, aPuts, aMissed>>
    /\ UNCHANGED <<coreVars, besideAdv>>

InitAdvisory == InitCoreVars /\ InitExtraVars

NextAdvisory ==
    \/ \E b \in {"inbox", "outbox"}, m \in Messages : AdvPut(b, m)
    \/ \E c \in Consumers : AdvCheck(c)
    \/ \E c \in Consumers : AdvGet(c)
    \/ \E c \in Consumers : AdvAgain(c)
    \/ AdvStopClear

SpecAdvisory == InitAdvisory /\ [][NextAdvisory]_vars

\* C31: process_message is never called with None and None is never put
\* into the peer's inbox; a get() that finds the box emptied since
\* is_empty() delivers nothing and sends the consumer back to the condition
\* of its loop.
C31_IsEmptyAdvisory ==
    /\ [](/\ \A i \in DOMAIN aDelivered : aDelivered[i] \in Messages
          /\ \A i \in DOMAIN aDst : aDst[i] \in Messages)
    /\ [][\A c \in Consumers :
             (aPc[c] = "get" /\ aPc'[c] = "check" /\ BoxIsEmpty(aBox[BoxOf(c)])) =>
                 /\ aDelivered' = aDelivered
                 /\ aDst' = aDst
                 /\ aBox' = aBox]_vars

\* run() and connect_agents have each found their box emptied between
\* is_empty() and get(): stop() took the inbox message, which was processed,
\* and cleared the outbox.
C31_Witness ==
    /\ {"run", "bridge"} \subseteq aMissed
    /\ Len(aDelivered) = 1
    /\ aPc["stop"] = "done"

(***************************************************************************)
(* SpecEmit: where the message returned by execute() is put                *)
(* (src/src/agent.py, Behavior._run and Agent.register_behavior)           *)
(***************************************************************************)

RegisteredOutboxInbox(a) == <<a, "inbox">>

\* register_behavior, line 237: behavior._agent_outbox = self.outbox
RegisteredOutbox(a) == <<a, "outbox">>

\* Agent.register_behavior (lines 230-239).
EmitRegister(a, b) ==
    /\ b \notin eRegs[a]
    /\ eOutboxRef' = [eOutboxRef EXCEPT ![b] = RegisteredOutbox(a)]
    /\ eRegs' = [eRegs EXCEPT ![a] = @ \cup {b}]
    /\ UNCHANGED <<eBoxes, eStarted, eLog>>
    /\ UNCHANGED <<coreVars, besideEmit>>

\* Behavior.start (lines 137-142), by start_behaviors of an agent the
\* behavior is registered with or by a direct call.
EmitStart(b) ==
    /\ ~eStarted[b]
    /\ eStarted' = [eStarted EXCEPT ![b] = TRUE]
    /\ UNCHANGED <<eBoxes, eOutboxRef, eRegs, eLog>>
    /\ UNCHANGED <<coreVars, besideEmit>>

\* One cycle of _run in which execute() is called and returns r (lines
\* 163-167).
EmitCycle(b, r) ==
    /\ eStarted[b]
    /\ Len(eLog) < MaxPuts
    /\ eLog' = Append(eLog, [behavior |-> b, ret |-> r])
    /\ eBoxes' = IF Truthy(r) /\ eOutboxRef[b] # "unset"
                 THEN [eBoxes EXCEPT ![eOutboxRef[b]] = BoxPut(@, Bound(r))]
                 ELSE eBoxes
    /\ UNCHANGED <<eOutboxRef, eRegs, eStarted>>
    /\ UNCHANGED <<coreVars, besideEmit>>

InitEmit == InitCoreVars /\ InitExtraVars

NextEmit ==
    \/ \E a \in Agents, b \in BehaviorObjects : EmitRegister(a, b)
    \/ \E b \in BehaviorObjects : EmitStart(b)
    \/ \E b \in BehaviorObjects, r \in {None} \cup {Some(m) : m \in Messages} :
          EmitCycle(b, r)

SpecEmit == InitEmit /\ [][NextEmit]_vars

\* The agents behavior b is registered with.
RegisteredWith(b) == {a \in Agents : b \in eRegs[a]}

\* C32: in a cycle of a behavior registered with one agent, a message
\* returned by execute() is appended once to that agent's outbox and every
\* other box stays as it is; in a cycle in which execute() returns None no
\* box changes.
C32_MessageGoesToOwnOutbox ==
    [][Len(eLog') = Len(eLog) + 1 =>
         LET b == eLog'[Len(eLog')].behavior
             r == eLog'[Len(eLog')].ret
         IN  /\ (r # None /\ Cardinality(RegisteredWith(b)) = 1) =>
                   \A a \in RegisteredWith(b) :
                       /\ eBoxes'[<<a, "outbox">>] = Append(eBoxes[<<a, "outbox">>], r[1])
                       /\ \A x \in AgentBoxes \ {<<a, "outbox">>} :
                             eBoxes'[x] = eBoxes[x]
             /\ (r = None) => eBoxes' = eBoxes]_vars

\* b1 is registered with A and b2 with B; b1 returned a message, which is the
\* only message in any box and is in A's outbox, and b2 returned None.
C32_Witness ==
    /\ eRegs = [a \in Agents |-> IF a = "A" THEN {"b1"} ELSE {"b2"}]
    /\ Len(eLog) = 2
    /\ eLog[1].behavior = "b1" /\ eLog[1].ret # None
    /\ eLog[2].behavior = "b2" /\ eLog[2].ret = None
    /\ Len(eBoxes[<<"A", "outbox">>]) = 1

(***************************************************************************)
(* SpecLife and SpecAgent: the agent after stop()                          *)
(***************************************************************************)

\* In this step the stop() call of task t returns, having found the agent
\* running when it was entered.
FullStopReturns(t) ==
    /\ pc[t] # Ret(t)
    /\ pc'[t] = Ret(t)
    /\ \/ running[t[1]]
       \/ mode[t] = "stop" /\ pc[t] = "s_behav"

\* The agent was started and is stopped, none of its behaviors is running
\* or has a task that is not done, and its outbox is empty.
Quiet(a) ==
    /\ pc[<<a, "run">>] # "new"
    /\ ~running[a]
    /\ \A i \in DOMAIN bTask[a] : BehaviorStopped(a, i)
    /\ outbox[a] = <<>>

\* C33: when a stop() that found the agent running returns, every behavior
\* of the agent is stopped with no task alive and the outbox is empty; from
\* then on no behavior of the agent can execute, and as long as run() and
\* send_message are not called this stays so.
C33_NothingRunsAfterStop ==
    /\ [][\A t \in Tasks : FullStopReturns(t) => Quiet(t[1])']_vars
    /\ [](\A a \in Agents : Quiet(a) =>
             \A i \in DOMAIN BehaviorList :
                 /\ ~ENABLED BehaviorRaise(a, i)
                 /\ \A m \in Messages : ~ENABLED BehaviorEmit(a, i, m))
    /\ [][\A a \in Agents : Quiet(a) => Quiet(a)']_vars

\* stop() was called from outside on a running agent with two behaviors, one
\* of which had put a message on the outbox, and has returned.
C33_Witness ==
    /\ pc[<<Solo, "ext">>] = "stopped"
    /\ pc[<<Solo, "run">>] = "sleep"
    /\ Len(bTask[Solo]) = 2
    /\ \A i \in DOMAIN bTask[Solo] : bTask[Solo][i] = "done"
    /\ puts > 0
    /\ Quiet(Solo)

(***************************************************************************)
(* SpecStopRace: one stop() call against the run task of an agent, with    *)
(* every task that can run getting its turn                                *)
(***************************************************************************)

\* `asyncio.create_task(agent.run())` has been made; stop() is called once,
\* before or after the first step of the run task.
StopOnce(a) ==
    /\ pc[<<a, "ext">>] = "idle"
    /\ CallStop(a)

\* RunWake, counting the iterations of the loop: asyncio.sleep(0.1) is over,
\* `while self.running` (lines 304-311), else the finally clause.
RaceWake(a) ==
    LET t == <<a, "run">>
    IN  /\ pc[t] = "sleep"
        /\ IF running[a]
           THEN /\ InnerWhile(t, "run")
                /\ loopTurn' = 1 - loopTurn
                /\ UNCHANGED <<running, bFlag, bTask, sidx>>
           ELSE /\ StopBody(t)
                /\ UNCHANGED loopTurn
        /\ UNCHANGED <<handlers, dlog, errors, puts, cancelled, processed>>
        /\ UNCHANGED <<boxVars, bridgeVars, timedVars, lifeVars, besideRace>>

NextStopRace ==
    \/ RegisterBehavior(Solo)
    \/ RunStart(Solo)
    \/ RaceWake(Solo)
    \/ StopOnce(Solo)
    \/ \E i \in DOMAIN BehaviorList : BehaviorCancelled(Solo, i)
    \/ \E k \in {"run", "ext"} : StopResume(<<Solo, k>>)
    \/ \E i \in DOMAIN BehaviorList, m \in Messages : BehaviorEmit(Solo, i, m)
    \/ \E m \in Messages : InboxPut(Solo, m)

\* The event loop runs every task that is ready: the run task gets its
\* first step and wakes from each sleep, a cancelled behavior task runs, and
\* a stop() waiting for it goes on.
FairStopRace ==
    /\ WF_vars(RunStart(Solo))
    /\ WF_vars(RaceWake(Solo))
    /\ \A i \in DOMAIN BehaviorList : WF_vars(BehaviorCancelled(Solo, i))
    /\ \A k \in {"run", "ext"} : WF_vars(StopResume(<<Solo, k>>))

SpecStopRace == InitLife /\ [][NextStopRace]_vars /\ FairStopRace

\* C34: once the stop() call has returned, the agent eventually has running
\* false and its run task has ended.
C34_StopEndsAgent ==
    (pc[<<Solo, "ext">>] = "stopped") ~>
        (~running[Solo] /\ pc[<<Solo, "run">>] = "done")

(***************************************************************************)
(* SpecTransfer: one call of CryptoTransferHandler.handle                  *)
(* (src/src/handlers.py)                                                   *)
(***************************************************************************)

RECURSIVE Pow10(_)
\* 10 ** decimals
Pow10(d) == IF d = 0 THEN 1 ELSE 10 * Pow10(d - 1)

InsufficientInTokens(balance, amount, decimals) == balance < amount

\* `balance < transfer_amount_wei` with transfer_amount_wei =
\* self.transfer_amount * (10 ** decimals) (lines 126-129).
Insufficient(balance, amount, decimals) == balance < amount * Pow10(decimals)

\* _get_balance (lines 170-186): the balance, or None after an exception.
GetBalance(call) == IF call = <<>> THEN None ELSE Some(call[1])

\* handle, lines 111-122: the balance check; without a balance handle logs
\* and returns.
TransferGetBalance ==
    /\ tPc = "start"
    /\ tBalance' = GetBalance(tBalanceCall)
    /\ IF tBalance' = None
       THEN /\ tPc' = "returned"
            /\ tLogged' = tLogged \o <<"Error getting balance",
                                       "Could not check source address balance">>
       ELSE /\ tPc' = "checked"
            /\ UNCHANGED tLogged
    /\ UNCHANGED <<tBalanceCall, tDecimalsCall, tSendCalls, transfer_amount, tSent>>
    /\ UNCHANGED <<coreVars, besideTransfer>>

\* handle, lines 124-135: decimals and the comparison; an exception of the
\* decimals call is caught at line 167.
TransferCompare ==
    /\ tPc = "checked"
    /\ IF tDecimalsCall = <<>>
       THEN /\ tPc' = "returned"
            /\ tLogged' = Append(tLogged, "Error handling crypto transfer")
       ELSE IF Insufficient(tBalance[1], transfer_amount, tDecimalsCall[1])
       THEN /\ tPc' = "returned"
            /\ tLogged' = Append(tLogged, "Insufficient balance for transfer")
       ELSE /\ tPc' = "sending"
            /\ UNCHANGED tLogged
    /\ UNCHANGED <<tBalanceCall, tDecimalsCall, tSendCalls, transfer_amount,
                   tBalance, tSent>>
    /\ UNCHANGED <<coreVars, besideTransfer>>

\* handle, lines 137-168: the transaction is built, signed and sent and its
\* receipt awaited; any exception is caught at line 167.
TransferSend ==
    /\ tPc = "sending"
    /\ tSent' = IF tSendCalls = "build_fails" THEN tSent ELSE tSent + 1
    /\ tLogged' = Append(tLogged, IF tSendCalls = "ok"
                                   THEN "Transfer successful"
                                   ELSE "Error handling crypto transfer")
    /\ tPc' = "returned"
    /\ UNCHANGED <<tBalanceCall, tDecimalsCall, tSendCalls, transfer_amount, tBalance>>
    /\ UNCHANGED <<coreVars, besideTransfer>>

\* Any handler, chain state and chain failure.
InitTransfer ==
    /\ InitCoreVars
    /\ InitWireVars
    /\ InitMsgVars
    /\ InitHelloVars
    /\ InitMainVars
    /\ InitConcVars
    /\ InitRandVars
    /\ InitAdvVars
    /\ InitEmitVars
    /\ InitRaceVars
    /\ InitThreadVars
    /\ InitHaltVars
    /\ tBalanceCall \in {<<>>} \cup {<<b>> : b \in 0..MaxBalance}
    /\ tDecimalsCall \in {<<>>, <<0>>, <<1>>}
    /\ tSendCalls \in {"build_fails", "send_fails", "ok"}
    /\ transfer_amount \in {1, 2}
    /\ tPc = "start"
    /\ tBalance = None
    /\ tSent = 0
    /\ tLogged = <<>>

NextTransfer == TransferGetBalance \/ TransferCompare \/ TransferSend

SpecTransfer == InitTransfer /\ [][NextTransfer]_vars

\* C35: a transaction is sent at most once and only when the balance call
\* succeeded with at least transfer_amount tokens, counted in the token's
\* smallest unit; with the balance unavailable or insufficient handle returns
\* having sent nothing; handle never raises.
C35_TransferOnlyWithBalance ==
    /\ tPc # "raised"
    /\ tSent <= 1
    /\ tSent > 0 =>
          /\ tBalanceCall # <<>>
          /\ tDecimalsCall # <<>>
          /\ tBalanceCall[1] >= transfer_amount * (IF tDecimalsCall[1] = 1 THEN 10 ELSE 1)
    /\ (tPc = "returned" /\ tBalanceCall = <<>>) => tSent = 0
    /\ (/\ tPc = "returned"
        /\ tBalanceCall # <<>>
        /\ tDecimalsCall # <<>>
        /\ tBalanceCall[1] < transfer_amount * (IF tDecimalsCall[1] = 1 THEN 10 ELSE 1)) =>
            tSent = 0

\* With one decimal and a balance of exactly two tokens, handle has sent the
\* transfer of two tokens and returned.
C35_Witness ==
    /\ tPc = "returned"
    /\ tSent = 1
    /\ tDecimalsCall = <<1>>
    /\ transfer_amount = 2
    /\ tBalanceCall = <<20>>

(***************************************************************************)
(* SpecThreaded: the two threaded Agents of src/Agent.py, wired and        *)
(* started as in its main()                                                *)
(***************************************************************************)

\* register_default_handlers (lines 72-89): message_handlers after __init__.
ThreadHandlers ==
    [t \in {"hello", "crypto"} |->
        IF t = "hello" THEN "hello_handler" ELSE "crypto_handler"]

\* The pairs random.sample(self.words, 2) is taken from here: one with and
\* one without "hello".
ThreadSamples ==
    { <<WordList[1], WordList[3]>>, <<WordList[2], WordList[5]>> }

\* `"hello" in message.get('content', '').lower()`
HasHello(m) == IsSubstring(KwHello, Lower(m.content))

\* random_message_behavior up to its time.sleep (lines 94-103): the message
\* goes to self.outbox, which main() has set to the inbox of the peer.
ThreadRandom(a) ==
    /\ thPc[a] = "random"
    /\ thPuts[a] < MaxPuts
    /\ \E words \in ThreadSamples :
          LET m == [type |-> "default", content |-> ContentOf(words), from |-> a]
          IN  /\ thInbox' = [thInbox EXCEPT ![Peer(a)] = Append(@, m)]
              /\ thHelloGen' = [thHelloGen EXCEPT ![Peer(a)] =
                                   IF HasHello(m) THEN @ + 1 ELSE @]
    /\ thPuts' = [thPuts EXCEPT ![a] = @ + 1]
    /\ thPutTimes' = [thPutTimes EXCEPT ![a] = Latest2(@, thNow)]
    /\ thPc' = [thPc EXCEPT ![a] = "sleep_r"]
    /\ thWake' = [thWake EXCEPT ![a] = thNow + MessageGenerationInterval]
    /\ UNCHANGED <<thNow, thHelloPrinted>>
    /\ UNCHANGED <<coreVars, besideThread>>

\* check_balance_behavior up to its time.sleep (lines 106-110); when the
\* balanceOf call raises, run_behaviors prints the error and its while loop
\* starts the for loop again (lines 187-192).
ThreadBalance(a, ok) ==
    /\ thPc[a] = "balance"
    /\ IF ok
       THEN /\ thPc' = [thPc EXCEPT ![a] = "sleep_b"]
            /\ thWake' = [thWake EXCEPT ![a] = thNow + CheckBalanceInterval]
       ELSE /\ thPc' = [thPc EXCEPT ![a] = "random"]
            /\ UNCHANGED thWake
    /\ UNCHANGED <<thInbox, thNow, thPutTimes, thPuts, thHelloGen, thHelloPrinted>>
    /\ UNCHANGED <<coreVars, besideThread>>

\* A time.sleep of a behavior ends: the for loop of run_behaviors calls the
\* next behavior, or the while loop starts it again.
ThreadSleepEnds(a) ==
    /\ thPc[a] \in {"sleep_r", "sleep_b"}
    /\ thNow >= thWake[a]
    /\ thPc' = [thPc EXCEPT ![a] = IF thPc[a] = "sleep_r" THEN "balance" ELSE "random"]
    /\ UNCHANGED <<thInbox, thWake, thNow, thPutTimes, thPuts, thHelloGen,
                   thHelloPrinted>>
    /\ UNCHANGED <<coreVars, besideThread>>

\* One second passes; a thread whose sleep is over, or that is about to call
\* a behavior, runs first.
ThreadTick ==
    /\ thNow < MaxThTime
    /\ \A a \in Agents :
          \/ thPc[a] \in {"sleep_r", "sleep_b"} /\ thWake[a] > thNow
          \/ thPc[a] = "random" /\ thPuts[a] = MaxPuts
    /\ thNow' = thNow + 1
    /\ UNCHANGED <<thInbox, thPc, thWake, thPutTimes, thPuts, thHelloGen,
                   thHelloPrinted>>
    /\ UNCHANGED <<coreVars, besideThread>>

\* One iteration of process_messages in which inbox.get returns a message
\* (lines 176-181).
ThreadProcess(a) ==
    /\ thInbox[a] # <<>>
    /\ LET m == Head(thInbox[a])
           h == HandlerFor(ThreadHandlers, TypeOf(m))
       IN  thHelloPrinted' = [thHelloPrinted EXCEPT ![a] =
                                 IF h = "hello_handler" /\ HasHello(m) THEN @ + 1 ELSE @]
    /\ thInbox' = [thInbox EXCEPT ![a] = Tail(@)]
    /\ UNCHANGED <<thPc, thWake, thNow, thPutTimes, thPuts, thHelloGen>>
    /\ UNCHANGED <<coreVars, besideThread>>

InitThreaded == InitCoreVars /\ InitExtraVars

NextThreaded ==
    \/ \E a \in Agents : ThreadRandom(a)
    \/ \E a \in Agents, ok \in BOOLEAN : ThreadBalance(a, ok)
    \/ \E a \in Agents : ThreadSleepEnds(a)
    \/ ThreadTick
    \/ \E a \in Agents : ThreadProcess(a)

SpecThreaded == InitThreaded /\ [][NextThreaded]_vars

\* C36: two consecutive messages of an agent's random_messages are less
\* than MESSAGE_GENERATION_INTERVAL + CHECK_BALANCE_INTERVAL apart: the wait
\* of check_balance is not part of the gap.
C36_RandomMessagesOnOwnInterval ==
    \A a \in Agents :
        Len(thPutTimes[a]) = 2 =>
            thPutTimes[a][2] - thPutTimes[a][1] <
                MessageGenerationInterval + CheckBalanceInterval

\* The messages of agent a's inbox that contain "hello".
HelloWaiting(a) ==
    Cardinality({i \in DOMAIN thInbox[a] : HasHello(thInbox[a][i])})

\* C37: every message with "hello" that random_messages has put into the
\* peer's inbox is still waiting there or has been printed by the peer's
\* hello_handler.
C37_HelloReachesPeerHandler ==
    \A a \in Agents : thHelloGen[a] = thHelloPrinted[a] + HelloWaiting(a)

(***************************************************************************)
(* SpecHalt: the loops of a BaseAgent when is_running is cleared           *)
(* (src/base_agent.py, src/main.py)                                        *)
(***************************************************************************)

\* `while self.is_running:` of either loop.
LoopHead(flag, inside) == IF flag THEN inside ELSE "done"

\* `await agent.inbox.put(message)`, by the peer's behavior or a test.
HaltPut(m) ==
    /\ hPuts < MaxPuts
    /\ hPuts' = hPuts + 1
    /\ hInbox' = Append(hInbox, m)
    /\ UNCHANGED <<hRunning, hProcPc, hExecPc, hTaken>>
    /\ UNCHANGED <<coreVars, besideHalt>>

\* process_messages tests its loop condition (line 67) and, inside the
\* loop, calls inbox.get() (line 70).
HaltProcHead ==
    /\ hProcPc = "head"
    /\ hProcPc' = LoopHead(hRunning, "get")
    /\ UNCHANGED <<hRunning, hInbox, hExecPc, hPuts, hTaken>>
    /\ UNCHANGED <<coreVars, besideHalt>>

\* `await self.inbox.get()` returns: asyncio.Queue.get waits until the queue
\* holds an item. The message is dispatched (lines 71-78) and the loop
\* condition is next.
HaltProcGet ==
    /\ hProcPc = "get"
    /\ hInbox # <<>>
    /\ hInbox' = Tail(hInbox)
    /\ hTaken' = hTaken + 1
    /\ hProcPc' = "head"
    /\ UNCHANGED <<hRunning, hExecPc, hPuts>>
    /\ UNCHANGED <<coreVars, besideHalt>>

\* execute_behaviors tests its loop condition (line 86), runs the behaviors
\* that are due and calls asyncio.sleep(0.1) (line 105).
HaltExecHead ==
    /\ hExecPc = "head"
    /\ hExecPc' = LoopHead(hRunning, "sleep")
    /\ UNCHANGED <<hRunning, hInbox, hProcPc, hPuts, hTaken>>
    /\ UNCHANGED <<coreVars, besideHalt>>

\* asyncio.sleep(0.1) of execute_behaviors is over.
HaltExecWake ==
    /\ hExecPc = "sleep"
    /\ hExecPc' = "head"
    /\ UNCHANGED <<hRunning, hInbox, hProcPc, hPuts, hTaken>>
    /\ UNCHANGED <<coreVars, besideHalt>>

\* agent.is_running = False (src/main.py lines 39-40), with no task cancelled.
HaltClear ==
    /\ hRunning
    /\ hRunning' = FALSE
    /\ UNCHANGED <<hInbox, hProcPc, hExecPc, hPuts, hTaken>>
    /\ UNCHANGED <<coreVars, besideHalt>>

InitHalt == InitCoreVars /\ InitExtraVars

NextHalt ==
    \/ \E m \in ConcMessages : HaltPut(m)
    \/ HaltProcHead
    \/ HaltProcGet
    \/ HaltExecHead
    \/ HaltExecWake
    \/ HaltClear

\* The event loop runs every task that is ready; nothing obliges anybody to
\* put a message or to clear the flag.
FairHalt ==
    /\ WF_vars(HaltProcHead)
    /\ WF_vars(HaltProcGet)
    /\ WF_vars(HaltExecHead)
    /\ WF_vars(HaltExecWake)

SpecHalt == InitHalt /\ [][NextHalt]_vars /\ FairHalt

\* C38: once is_running is False, both loops eventually terminate.
C38_LoopsEndWhenFlagCleared ==
    (~hRunning) ~> (hProcPc = "done" /\ hExecPc = "done")

====
